---- MODULE Spec2Model ----
(***************************************************************************)
(* A model of the flight-search aggregation pipeline: the search worker    *)
(* (app/workers/search_worker.py), the cache client                        *)
(* (app/services/cache.py), the connector orchestrator                     *)
(* (app/services/orchestrator.py) and the pure pipeline stages             *)
(* (normalizer, stops filter, dedup, ranking, link validator).             *)
(*                                                                         *)
(* Two specifications share the variables:                                 *)
(*   Spec      the worker: SearchRequest rows, the Redis store, the FX     *)
(*             rate cache and one _run coroutine per launched search,      *)
(*             stepping from one await to the next;                        *)
(*   SpecOrch  one execute_connectors call: the semaphore and one _guarded *)
(*             coroutine per connector, stepping attempt by attempt.       *)
(* Python's None is the empty tuple, a present value v the 1-tuple <<v>>.  *)
(* Money is an integer number of cents; an FX rate is a fraction num/den.   *)
(***************************************************************************)
EXTENDS Integers, Sequences, FiniteSets, TLC

None == <<>>
Some(v) == <<v>>

\* ------------------------------------------------------------------ bounds

\* Searches the API creates in one behaviour.
MaxSearches == 2
\* Connectors handed to one execute_connectors call (SpecOrch).
MaxConnectors == 2
\* Largest retries setting explored by SpecOrch.
MaxRetries == 1
\* Largest max_parallel setting explored by SpecOrch.
MaxParallel == 2
\* Calls of SearchWorker.launch in one behaviour (SpecLife).
MaxLaunches == 3
\* Longest offer list handed to a function of the pipeline (SpecPipe).
MaxOffers == 3

\* ------------------------------------------------------- settings (config.py)

connector_retries == 1
connector_timeout_seconds == 20
max_parallel_connectors == 4
max_offers_per_search == 50
default_sources == <<"trip_com", "airasia">>

\* The rate the FX provider quotes for USD -> MYR, as a fraction: 4.47.
FxQuote == [num |-> 447, den |-> 100]

\* ------------------------------------------------------------ text helpers

\* str.lower() on the names the model uses.
Lower(s) ==
    CASE s = "TRIP_COM" -> "trip_com"
      [] s = "Trip_Com" -> "trip_com"
      [] s = "AIRASIA" -> "airasia"
      [] s = "AirAsia" -> "airasia"
      [] s = "BOGUS" -> "bogus"
      [] s = "AK" -> "ak"
      [] s = "MH" -> "mh"
      [] s = "TG" -> "tg"
      [] OTHER -> s

\* str.strip() on the texts the model uses.
Strip(s) ==
    CASE s = "   " -> ""
      [] s = " airasia " -> "airasia"
      [] s = " AirAsia" -> "AirAsia"
      [] OTHER -> s

\* str.upper() on the codes the model uses.
Upper(s) ==
    CASE s = "kul" -> "KUL"
      [] s = "bkk" -> "BKK"
      [] s = "myr" -> "MYR"
      [] s = "usd" -> "USD"
      [] s = "ak" -> "AK"
      [] s = "mh" -> "MH"
      [] s = "ak881" -> "AK881"
      [] s = "mh780" -> "MH780"
      [] s = "economy" -> "ECONOMY"
      [] s = "Economy" -> "ECONOMY"
      [] OTHER -> s

\* Position of a text in sorted() order, among the texts the model sorts.
TextRank(s) ==
    CASE s = "AK881" -> 1
      [] s = "MH780" -> 2
      [] s = "airasia" -> 3
      [] s = "bogus" -> 4
      [] s = "trip_com" -> 5
      [] OTHER -> 6

RECURSIVE SortedInsert(_, _)
SortedInsert(sorted, s) ==
    IF sorted = <<>> THEN <<s>>
    ELSE IF TextRank(s) < TextRank(Head(sorted)) THEN <<s>> \o sorted
    ELSE <<Head(sorted)>> \o SortedInsert(Tail(sorted), s)

RECURSIVE SortTexts(_)
SortTexts(names) ==
    IF names = <<>> THEN <<>>
    ELSE SortedInsert(SortTexts(Tail(names)), Head(names))

MapSeq(f(_), s) == [i \in 1..Len(s) |-> f(s[i])]

RECURSIVE Concat(_)
Concat(lists) ==
    IF lists = <<>> THEN <<>> ELSE Head(lists) \o Concat(Tail(lists))

RECURSIVE SumSeq(_)
SumSeq(numbers) ==
    IF numbers = <<>> THEN 0 ELSE Head(numbers) + SumSeq(Tail(numbers))

\* The value of f(v), with v evaluated once: the result of one statement
\* handed to the next.
Then(v, f(_)) == CHOOSE r \in {f(x) : x \in {v}} : TRUE

RECURSIVE FilterSeq(_, _)
FilterSeq(keep(_), s) ==
    IF s = <<>> THEN <<>>
    ELSE IF keep(Head(s)) THEN <<Head(s)>> \o FilterSeq(keep, Tail(s))
    ELSE FilterSeq(keep, Tail(s))

\* ------------------------------------------------------------- query hash

\* A hash over the sources in the order requested.
build_query_hash_Unsorted(query) ==
    [query EXCEPT !.sources = MapSeq(Lower, query.sources)]

\* build_query_hash: the sources lower-cased and sorted, the rest as dumped;
\* the SHA-256 digest of the canonical JSON text is taken to be
\* collision-free, so the canonical record stands for its digest.
build_query_hash(query) ==
    [query EXCEPT !.sources = SortTexts(MapSeq(Lower, query.sources))]

cache_key_for_query_hash(query_hash) == <<"search-result", "v3", query_hash>>

\* ------------------------------------------------------------------ offers

\* What the connectors can return. RawFlightOffer without the opaque
\* pass-through fields (fare_brand, baggage, fare_rules, raw_payload).
OfferA ==
    [source |-> "trip_com", airline |-> "AK", flight_numbers |-> <<"AK881">>,
     origin |-> "KUL", destination |-> "BKK",
     departure_at |-> "2026-03-20T09:00+08:00", arrival_at |-> "2026-03-20T10:10+07:00",
     stops |-> 1, duration_minutes |-> 180, cabin |-> Some("economy"),
     base_price |-> Some(25000), taxes |-> Some(5000), fees |-> None,
     total_price |-> 30000, currency |-> "MYR",
     booking_url |-> "https://trip.com/ak881", deep_link_valid |-> FALSE]

OfferB ==
    [source |-> "trip_com", airline |-> "MH", flight_numbers |-> <<"MH780">>,
     origin |-> "KUL", destination |-> "BKK",
     departure_at |-> "2026-03-20T13:00+08:00", arrival_at |-> "2026-03-20T14:05+07:00",
     stops |-> 0, duration_minutes |-> 125, cabin |-> Some("economy"),
     base_price |-> Some(0), taxes |-> None, fees |-> Some(333),
     total_price |-> 6001, currency |-> "USD",
     booking_url |-> "mailto:sales@trip.com", deep_link_valid |-> FALSE]

OfferC ==
    [source |-> "airasia", airline |-> "ak", flight_numbers |-> <<"ak881">>,
     origin |-> "kul", destination |-> "bkk",
     departure_at |-> "2026-03-20T09:00+08:00", arrival_at |-> "2026-03-20T10:10+07:00",
     stops |-> 0, duration_minutes |-> 130, cabin |-> Some("Economy"),
     base_price |-> None, taxes |-> None, fees |-> None,
     total_price |-> 29000, currency |-> "myr",
     booking_url |-> "https://airasia.com/ak881", deep_link_valid |-> FALSE]

\* More offers of the same flights (SpecPipe): OfferD ties OfferC on price and
\* duration with more stops and has a URL urlparse rejects, OfferE has the
\* price of OfferC and a shorter duration, OfferF has amounts whose
\* conversion ends in half a cent, OfferG is another flight with the price,
\* stops and duration of OfferC.
OfferD ==
    [OfferA EXCEPT !.total_price = 29000, !.duration_minutes = 130, !.stops = 2,
                   !.booking_url = "http://[broken"]

OfferE == [OfferA EXCEPT !.total_price = 29000, !.duration_minutes = 120]

OfferF ==
    [OfferB EXCEPT !.total_price = 150, !.base_price = None, !.taxes = Some(250),
                   !.fees = None, !.stops = 1, !.currency = "usd"]

OfferG ==
    [OfferC EXCEPT !.airline = "MH", !.flight_numbers = <<"MH780">>,
                   !.booking_url = "https://trip.com/ak881"]

\* The offers a connector's search returns when it succeeds.
ConnectorOffers(name) ==
    CASE name = "trip_com" -> <<OfferA, OfferB>>
      [] name = "airasia" -> <<OfferC>>
      [] OTHER -> <<>>

\* ----------------------------------------------------------- normalization

\* RoundHalfUp dropping the fraction of a cent.
RoundHalfUp_Truncating(numerator, denominator) == numerator \div denominator

\* Decimal.quantize(Decimal("0.01"), ROUND_HALF_UP) of cents * num / den,
\* for amounts >= 0.
RoundHalfUp(numerator, denominator) ==
    (2 * numerator + denominator) \div (2 * denominator)

\* FxService.convert with the rate already fetched: None stays None, the
\* same currency is only quantized, otherwise amount * rate, quantized.
Convert(amount, from_currency, to_currency, rate) ==
    IF amount = None THEN None
    ELSE IF Upper(from_currency) = Upper(to_currency) THEN amount
    ELSE Some(RoundHalfUp(amount[1] * rate.num, rate.den))

\* Whether normalize_offer asks the FX service for a rate.
NeedsRate(offer, target_currency) ==
    Upper(offer.currency) # Upper(target_currency)

normalize_offer(offer, target_currency, rate) ==
    LET currency == Upper(target_currency)
        normalized == [offer EXCEPT !.source = Lower(@),
                                    !.origin = Upper(@),
                                    !.destination = Upper(@)]
    IN  IF Upper(normalized.currency) = currency
        THEN [normalized EXCEPT !.currency = currency]
        ELSE [normalized EXCEPT
                 !.base_price = Convert(@, normalized.currency, currency, rate),
                 !.taxes = Convert(@, normalized.currency, currency, rate),
                 !.fees = Convert(@, normalized.currency, currency, rate),
                 !.total_price =
                     Convert(Some(@), normalized.currency, currency, rate)[1],
                 !.currency = currency]

normalize_offers(offers, target_currency, rate) ==
    [i \in 1..Len(offers) |-> normalize_offer(offers[i], target_currency, rate)]

\* --------------------------------------------------------------- the filter

\* filter_offers_by_stops keeping, for multiple_stops, only offers with two
\* stops or more.
filter_offers_by_stops_StrictlyMultiple(offers, stop_preference) ==
    LET NonStop(offer) == offer.stops = 0
        WithStops(offer) == offer.stops >= 2
    IN  IF stop_preference = "non_stop" THEN FilterSeq(NonStop, offers)
        ELSE IF stop_preference = "multiple_stops" THEN FilterSeq(WithStops, offers)
        ELSE offers

filter_offers_by_stops(offers, stop_preference) ==
    LET NonStop(offer) == offer.stops = 0
        WithStops(offer) == offer.stops >= 1
    IN  IF stop_preference = "non_stop" THEN FilterSeq(NonStop, offers)
        ELSE IF stop_preference = "multiple_stops" THEN FilterSeq(WithStops, offers)
        ELSE offers

\* -------------------------------------------------------------------- dedup

\* build_dedup_key: the SHA-1 digest of the joined text is taken to be
\* collision-free, so the tuple of its parts stands for the digest.
build_dedup_key(offer) ==
    <<Upper(offer.origin), Upper(offer.destination), offer.departure_at,
      offer.arrival_at, Upper(offer.airline),
      SortTexts(MapSeq(Upper, offer.flight_numbers)),
      IF offer.cabin = None THEN "" ELSE Upper(offer.cabin[1])>>

\* Index of dedup_key among the entries of `selected`, 0 when absent.
KeyIndex(selected, dedup_key) ==
    LET hits == {i \in 1..Len(selected) : selected[i].key = dedup_key}
    IN  IF hits = {} THEN 0 ELSE CHOOSE i \in hits : TRUE

\* DedupStep replacing the entry only on a strictly lower price.
DedupStep_PriceOnly(selected, offer) ==
    LET dedup_key == build_dedup_key(offer)
        at == KeyIndex(selected, dedup_key)
    IN  IF at = 0 THEN Append(selected, [key |-> dedup_key, offer |-> offer])
        ELSE IF offer.total_price < selected[at].offer.total_price
        THEN [selected EXCEPT ![at].offer = offer]
        ELSE selected

\* One iteration of the loop of deduplicate_offers; `selected` is the dict
\* as the sequence of its entries in insertion order.
DedupStep(selected, offer) ==
    LET dedup_key == build_dedup_key(offer)
        at == KeyIndex(selected, dedup_key)
    IN  IF at = 0 THEN Append(selected, [key |-> dedup_key, offer |-> offer])
        ELSE IF offer.total_price < selected[at].offer.total_price
        THEN [selected EXCEPT ![at].offer = offer]
        ELSE IF /\ offer.total_price = selected[at].offer.total_price
                /\ offer.duration_minutes < selected[at].offer.duration_minutes
        THEN [selected EXCEPT ![at].offer = offer]
        ELSE selected

RECURSIVE DedupLoop(_, _)
DedupLoop(selected, offers) ==
    IF offers = <<>> THEN selected
    ELSE LET step(dict) == DedupStep(dict, Head(offers))
         IN  DedupLoop(Then(selected, step), Tail(offers))

deduplicate_offers(offers) ==
    LET selected == DedupLoop(<<>>, offers)
    IN  [i \in 1..Len(selected) |-> selected[i].offer]

\* ------------------------------------------------------------------ ranking

\* Tuple comparison of the sort key (total_price, stops, duration_minutes).
RankLess(a, b) ==
    \/ a.total_price < b.total_price
    \/ /\ a.total_price = b.total_price
       /\ \/ a.stops < b.stops
          \/ /\ a.stops = b.stops
             /\ a.duration_minutes < b.duration_minutes

\* RankInsert placing the offer before the elements it ties with.
RECURSIVE RankInsert_BeforeTies(_, _)
RankInsert_BeforeTies(sorted, offer) ==
    IF sorted = <<>> THEN <<offer>>
    ELSE IF ~RankLess(Head(sorted), offer) THEN <<offer>> \o sorted
    ELSE <<Head(sorted)>> \o RankInsert_BeforeTies(Tail(sorted), offer)

\* Insert after every element that is not greater: sorted() is stable.
RECURSIVE RankInsert(_, _)
RankInsert(sorted, offer) ==
    IF sorted = <<>> THEN <<offer>>
    ELSE IF RankLess(offer, Head(sorted)) THEN <<offer>> \o sorted
    ELSE <<Head(sorted)>> \o RankInsert(Tail(sorted), offer)

RECURSIVE RankLoop(_, _)
RankLoop(sorted, offers) ==
    IF offers = <<>> THEN sorted
    ELSE LET insert(list) == RankInsert(list, Head(offers))
         IN  RankLoop(Then(sorted, insert), Tail(offers))

rank_offers(offers) == RankLoop(<<>>, offers)

\* ranked[: max_offers_per_search]
Cap(offers, limit) ==
    IF Len(offers) <= limit THEN offers ELSE SubSeq(offers, 1, limit)

\* ------------------------------------------------------------ alternatives

_MAX_ALTERNATIVES == 5

\* get_search, line 176.
alternative_limit(cap) ==
    LET floor == IF cap - 1 > 0 THEN cap - 1 ELSE 0
    IN  IF floor < _MAX_ALTERNATIVES THEN floor ELSE _MAX_ALTERNATIVES

\* (offer.airline or "").strip().lower()
airline_key(offer) == Lower(Strip(offer.airline))

\* The first loop of _select_alternative_offers over `rest`: the first offer
\* of every airline not seen, until `limit` are selected.
RECURSIVE VarietyPass(_, _, _, _)
VarietyPass(selected, seen_airlines, rest, limit) ==
    IF rest = <<>> \/ Len(selected) >= limit THEN selected
    ELSE IF airline_key(Head(rest)) \in seen_airlines
    THEN VarietyPass(selected, seen_airlines, Tail(rest), limit)
    ELSE VarietyPass(Append(selected, Head(rest)),
                     seen_airlines \cup {airline_key(Head(rest))}, Tail(rest), limit)

\* The second loop: the offers not selected, until `limit` are selected.
RECURSIVE LeftoverPass(_, _, _)
LeftoverPass(selected, rest, limit) ==
    IF rest = <<>> \/ Len(selected) >= limit THEN selected
    ELSE IF \E i \in 1..Len(selected) : selected[i].id = Head(rest).id
    THEN LeftoverPass(selected, Tail(rest), limit)
    ELSE LeftoverPass(Append(selected, Head(rest)), Tail(rest), limit)

\* _select_alternative_offers taking its candidates from offers[0:].
_select_alternative_offers_FromFirst(offers, limit) ==
    IF limit <= 0 \/ Len(offers) <= 1 THEN <<>>
    ELSE LeftoverPass(VarietyPass(<<>>, {}, offers, limit), offers, limit)

_select_alternative_offers(offers, limit) ==
    IF limit <= 0 \/ Len(offers) <= 1 THEN <<>>
    ELSE LeftoverPass(VarietyPass(<<>>, {}, Tail(offers), limit), Tail(offers), limit)

\* ---------------------------------------------------------- link validation

\* urlparse raises ValueError on this URL (an unclosed IPv6 bracket).
UrlParseRaises(url) == url = "http://[broken"

UrlScheme(url) ==
    CASE url = "https://trip.com/ak881" -> "https"
      [] url = "https://airasia.com/ak881" -> "https"
      [] url = "mailto:sales@trip.com" -> "mailto"
      [] OTHER -> ""

\* What one HTTP request of the validator can do: answer with a status, or
\* raise (a transport error, a timeout).
HttpOutcomes ==
    {[raised |-> FALSE, status |-> 200], [raised |-> FALSE, status |-> 404],
     [raised |-> TRUE, status |-> 0]}

\* A request the validator does not send.
NotSent == [raised |-> FALSE, status |-> 0]

\* What the HEAD and the GET request for one URL do: the GET is sent only
\* after a HEAD that answered with a status of 400 or more.
ProbeOutcomes ==
    {probe \in [head : HttpOutcomes, get : HttpOutcomes \cup {NotSent}] :
        (probe.get # NotSent) <=>
            (~probe.head.raised /\ probe.head.status >= 400)}

\* validate without the GET after a HEAD that answered 400 or more.
validate_HeadOnly(url, probe) ==
    IF UrlScheme(url) \notin {"http", "https"} THEN FALSE
    ELSE IF probe.head.raised THEN FALSE
    ELSE probe.head.status < 400

\* LinkValidator.validate on one URL, given what its requests do.
validate(url, probe) ==
    IF UrlScheme(url) \notin {"http", "https"} THEN FALSE
    ELSE IF probe.head.raised THEN FALSE
    ELSE IF probe.head.status < 400 THEN TRUE
    ELSE IF probe.get.raised THEN FALSE
    ELSE probe.get.status < 400

\* The requests sent for one URL: none for a URL that is not http(s).
ProbesFor(url) ==
    IF UrlParseRaises(url) \/ UrlScheme(url) \notin {"http", "https"}
    THEN {[head |-> NotSent, get |-> NotSent]}
    ELSE ProbeOutcomes

\* What the requests for the URLs of the offers can do, one probe per offer.
ProbeChoices(offers) ==
    {probes \in [1..Len(offers) ->
                    ProbeOutcomes \cup {[head |-> NotSent, get |-> NotSent]}] :
        \A i \in 1..Len(offers) : probes[i] \in ProbesFor(offers[i].booking_url)}

\* SearchWorker._validate_links: every offer's flag from its own URL; a
\* validate call that raised is in gather's results as the exception, and
\* its offer is flagged invalid.
validate_links(offers, probes) ==
    [i \in 1..Len(offers) |->
        [offers[i] EXCEPT !.deep_link_valid =
            IF UrlParseRaises(offers[i].booking_url) THEN FALSE
            ELSE validate(offers[i].booking_url, probes[i])]]

\* ------------------------------------------------------------- orchestrator

\* The decimal text of a timeout setting.
SecondsText(n) ==
    CASE n = 20 -> "20"
      [] n = 5 -> "5"
      [] OTHER -> "?"

\* A text built by an f-string is the tuple of its fragments.
_format_exception_message(exc_type, exc_msg) ==
    IF Strip(exc_msg) # "" THEN <<exc_type, ": ", Strip(exc_msg)>>
    ELSE <<exc_type, ": no details provided">>

TimedOutMessage(timeout_seconds) ==
    <<"Timed out after ", SecondsText(timeout_seconds), "s">>

\* What one connector.search call under asyncio.wait_for can do: return its
\* offers, still be running at the deadline, or raise.
OkOutcome(offers) ==
    [kind |-> "ok", offers |-> offers, exc_type |-> "", exc_msg |-> "", ms |-> 150]
DeadlineOutcome(timeout_seconds) ==
    [kind |-> "deadline", offers |-> <<>>, exc_type |-> "", exc_msg |-> "",
     ms |-> timeout_seconds * 1000]
RaiseOutcome(exc_type, exc_msg) ==
    [kind |-> "raise", offers |-> <<>>, exc_type |-> exc_type, exc_msg |-> exc_msg,
     ms |-> 150]

\* The except clause an attempt's outcome lands in: wait_for raises
\* TimeoutError at the deadline, and "except TimeoutError" also catches a
\* TimeoutError the connector raised itself.
AttemptStatus(outcome) ==
    IF outcome.kind = "ok" THEN "success"
    ELSE IF outcome.kind = "deadline" THEN "timeout"
    ELSE IF outcome.exc_type = "TimeoutError" THEN "timeout"
    ELSE "error"

AttemptError(outcome, timeout_seconds) ==
    IF AttemptStatus(outcome) = "timeout" THEN TimedOutMessage(timeout_seconds)
    ELSE _format_exception_message(outcome.exc_type, outcome.exc_msg)

\* The ConnectorRunResult of the success return inside the loop.
SuccessResult(name, offers, latency_ms) ==
    [source |-> name, status |-> "success", latency_ms |-> latency_ms,
     offers |-> offers, error_message |-> None]

\* A failure return that drops the error description.
FailureResult_WithoutError(name, status, last_error, latency_ms) ==
    [source |-> name, status |-> status, latency_ms |-> latency_ms,
     offers |-> <<>>, error_message |-> None]

\* A failure return that reports the initial value of the local `status`
\* instead of the status of the last attempt.
FailureResult_InitialStatus(name, status, last_error, latency_ms) ==
    [source |-> name, status |-> "error", latency_ms |-> latency_ms,
     offers |-> <<>>, error_message |-> last_error]

\* The ConnectorRunResult of the return after the loop.
FailureResult(name, status, last_error, latency_ms) ==
    [source |-> name, status |-> status, latency_ms |-> latency_ms,
     offers |-> <<>>, error_message |-> last_error]

\* The for loop of _run_single over the outcomes its attempts will have:
\* `left` iterations remain, `status` and `last_error` are the locals,
\* `elapsed` the time since `started`.
RECURSIVE RunSingleLoop(_, _, _, _, _, _, _)
RunSingleLoop(name, outcomes, left, status, last_error, elapsed, timeout_seconds) ==
    IF left = 0 THEN FailureResult(name, status, last_error, elapsed)
    ELSE LET outcome == Head(outcomes)
         IN  IF AttemptStatus(outcome) = "success"
             THEN SuccessResult(name, outcome.offers, elapsed + outcome.ms)
             ELSE RunSingleLoop(name, Tail(outcomes), left - 1,
                                AttemptStatus(outcome),
                                Some(AttemptError(outcome, timeout_seconds)),
                                elapsed + outcome.ms, timeout_seconds)

_run_single(name, outcomes, timeout_seconds, retries) ==
    RunSingleLoop(name, outcomes, retries + 1, "error", None, 0, timeout_seconds)

\* How many of the outcomes _run_single consumes: up to the first success.
RECURSIVE AttemptsMade(_, _)
AttemptsMade(outcomes, left) ==
    IF left = 0 THEN 0
    ELSE IF AttemptStatus(Head(outcomes)) = "success" THEN 1
    ELSE 1 + AttemptsMade(Tail(outcomes), left - 1)

\* execute_connectors as a whole: asyncio.gather returns the results in the
\* order of the connectors. outcomes[i] are the outcomes of connector i.
execute_connectors(connectors, outcomes, timeout_seconds, retries) ==
    [i \in 1..Len(connectors) |->
        _run_single(connectors[i], outcomes[i], timeout_seconds, retries)]

\* ------------------------------------------------------------ the registry

\* ConnectorRegistry.build: the connector of every known source name, in the
\* order requested; an unknown name is skipped. A connector is its name.
RECURSIVE build(_)
build(requested_sources) ==
    IF requested_sources = <<>> THEN <<>>
    ELSE IF Lower(Head(requested_sources)) \in {"trip_com", "airasia"}
    THEN <<Lower(Head(requested_sources))>> \o build(Tail(requested_sources))
    ELSE build(Tail(requested_sources))

\* -------------------------------------------------------- the cache payload

\* str(Decimal): the text of an amount, never the empty text.
DecimalText(cents) == [text |-> cents]

\* RawFlightOffer.to_jsonable: the prices become texts, None stays null.
to_jsonable(offer) ==
    [offer EXCEPT
        !.base_price = IF @ = None THEN None ELSE Some(DecimalText(@[1])),
        !.taxes = IF @ = None THEN None ELSE Some(DecimalText(@[1])),
        !.fees = IF @ = None THEN None ELSE Some(DecimalText(@[1])),
        !.total_price = DecimalText(@)]

\* A reader that judges the amount instead of its text: a price of zero is
\* then read back as missing.
Truthy_ZeroIsFalsy(value) == value # None /\ value[1].text # 0

\* bool(payload.get(key)) of a price text: null is falsy, the text of an
\* amount is a non-empty string and so truthy, also for "0.00".
Truthy(value) == value # None

\* RawFlightOffer.from_jsonable
from_jsonable(item) ==
    [item EXCEPT
        !.base_price = IF Truthy(@) THEN Some(@[1].text) ELSE None,
        !.taxes = IF Truthy(@) THEN Some(@[1].text) ELSE None,
        !.fees = IF Truthy(@) THEN Some(@[1].text) ELSE None,
        !.total_price = @.text]

\* The slimmed run result _run puts into the cache payload.
RunSummary(run) ==
    [source |-> run.source, status |-> run.status,
     latency_ms |-> run.latency_ms, error_message |-> run.error_message]

\* The payload _run hands to set_json.
CachePayload(ranked, runs) ==
    [offers |-> MapSeq(to_jsonable, ranked),
     connector_runs |-> MapSeq(RunSummary, runs)]

\* The ConnectorRunResult _hydrate_from_cache builds from a cached summary.
HydrateRun(item) ==
    [source |-> item.source, status |-> item.status,
     latency_ms |-> item.latency_ms, offers |-> <<>>,
     error_message |-> item.error_message]

\* ------------------------------------------------------------- persistence

\* _as_utc on the instants the model uses.
_as_utc(value) ==
    CASE value = "2026-03-20T09:00+08:00" -> "2026-03-20T01:00+00:00"
      [] value = "2026-03-20T10:10+07:00" -> "2026-03-20T03:10+00:00"
      [] value = "2026-03-20T13:00+08:00" -> "2026-03-20T05:00+00:00"
      [] value = "2026-03-20T14:05+07:00" -> "2026-03-20T07:05+00:00"
      [] OTHER -> value

\* The Offer row _persist_result builds from an offer.
OfferRow(offer) ==
    [f \in DOMAIN offer \cup {"dedup_key"} |->
        IF f = "dedup_key" THEN build_dedup_key(offer)
        ELSE IF f \in {"departure_at", "arrival_at"} THEN _as_utc(offer[f])
        ELSE offer[f]]

\* The ConnectorRun row _persist_result builds from a run result.
RunRow(run) == RunSummary(run)

\* ------------------------------------------------------------------- state

VARIABLES
    \* The worker (Spec).
    searches,        \* search_requests: id -> the row, exists = FALSE before it is created
    offerRows,       \* offers: search id -> its rows, in insertion order
    runRows,         \* connector_runs: search id -> its rows, in insertion order
    redisStore,      \* the Redis server: cache key -> None or Some(payload)
    redisUp,         \* whether the Redis server answers now
    cacheConnected,  \* CacheClient._redis is not None
    fxCache,         \* FxService._cache: the currency pairs with an unexpired rate
    pc,              \* search id -> where its _run coroutine is suspended
    local,           \* search id -> the locals of its _run coroutine
    exc,             \* search id -> None or Some(the exception _run caught)
    hist,            \* search id -> what this run did (history)
    \* One execute_connectors call (SpecOrch).
    oCall,           \* the arguments of the call
    oSem,            \* semaphore._value: the free admission slots
    oTask,           \* connector index -> the state of its _guarded coroutine
    oResults,        \* None until gather returns, then Some(the result list)
    \* The task registry of the worker (SpecLife).
    _tasks,          \* SearchWorker._tasks: the handles of the registered tasks
    taskOf,          \* handle -> the task launch created: its search id and state
    shutdownState,   \* where the shutdown coroutine is, and the tasks its gather awaits
    closed,          \* the transports whose close() has run
    \* Two query hashes (SpecHash).
    hashIn,          \* the two request bodies
    hashOut,         \* None, then Some(the two validated queries and their hashes)
    \* One call of a function of the pipeline (SpecPipe).
    pipeIn,          \* the call: the function and its arguments
    pipeOut          \* None, then Some(what the call returned)

workerVars ==
    <<searches, offerRows, runRows, redisStore, redisUp, cacheConnected,
      fxCache, pc, local, exc, hist>>
orchVars == <<oCall, oSem, oTask, oResults>>
lifeVars == <<_tasks, taskOf, shutdownState, closed>>
hashVars == <<hashIn, hashOut>>
pipeVars == <<pipeIn, pipeOut>>
vars == <<workerVars, orchVars, lifeVars, hashVars, pipeVars>>

SearchIds == 1..MaxSearches

\* ------------------------------------------------------------- the queries

\* SearchCreateRequest after validation; the date fields are texts.
BaseQuery ==
    [origin |-> "KUL", destination |-> "BKK", departure_date |-> "2026-03-20",
     return_date |-> None, trip_type |-> "one_way", adults |-> 1, children |-> 0,
     infants |-> 0, cabin |-> "economy", currency |-> "MYR",
     stop_preference |-> "any", sources |-> None]

\* The request bodies the API receives in this model.
Queries ==
    {BaseQuery,
     [BaseQuery EXCEPT !.sources = <<"airasia", "bogus">>,
                       !.stop_preference = "multiple_stops"],
     [BaseQuery EXCEPT !.sources = <<"bogus">>]}

AllCacheKeys ==
    {cache_key_for_query_hash(build_query_hash(
        [q EXCEPT !.sources = IF @ = <<>> THEN default_sources ELSE @])) : q \in Queries}

\* How a connector behaves during one run of the worker: every attempt
\* returns its offers, or every attempt is still running at the deadline, or
\* every attempt raises. (SpecOrch explores attempts that differ.)
ConnectorBehaviours == {"ok", "deadline", "raise"}

BehaviourOutcome(name, behaviour) ==
    CASE behaviour = "ok" -> OkOutcome(ConnectorOffers(name))
      [] behaviour = "deadline" -> DeadlineOutcome(connector_timeout_seconds)
      [] OTHER -> RaiseOutcome("ConnectorExecutionError", "upstream failed")

NoRow ==
    [exists |-> FALSE, status |-> "", error_message |-> None, started_at |-> None,
     completed_at |-> None, query |-> BaseQuery, query_hash |-> BaseQuery]

NoLocal ==
    [query |-> BaseQuery, query_hash |-> BaseQuery, cached_payload |-> None,
     runs |-> <<>>, ranked |-> <<>>]

NoHist ==
    [cache_hit |-> FALSE, connector_calls |-> 0]

\* An exception as _run's except clause sees it: its type, str(exc), and the
\* statement that raised it.
Exc(exc_type, msg, stage) == [type |-> exc_type, msg |-> msg, stage |-> stage]

DbError(stage) == Exc("OperationalError", "database is unavailable", stage)
RedisError(stage) == Exc("ConnectionError", "Error connecting to redis", stage)

\* ---------------------------------------------------------- the cache client

\* CacheClient.get_json: [raised, value]; value is None on a miss.
get_json(connected, up, store, key) ==
    IF ~connected THEN [raised |-> FALSE, value |-> None]
    ELSE IF ~up THEN [raised |-> TRUE, value |-> None]
    ELSE [raised |-> FALSE, value |-> store[key]]

\* CacheClient.set_json: [raised, store]; store is the server's new content.
set_json(connected, up, store, key, payload) ==
    IF ~connected THEN [raised |-> FALSE, store |-> store]
    ELSE IF ~up THEN [raised |-> TRUE, store |-> store]
    ELSE [raised |-> FALSE, store |-> [store EXCEPT ![key] = Some(payload)]]

\* ------------------------------------------------------------------ worker

WorkerInit ==
    /\ searches = [id \in SearchIds |-> NoRow]
    /\ offerRows = [id \in SearchIds |-> <<>>]
    /\ runRows = [id \in SearchIds |-> <<>>]
    /\ redisStore = [key \in AllCacheKeys |-> None]
    \* CacheClient.connect: the client is kept only if the ping answers.
    /\ cacheConnected \in BOOLEAN
    /\ redisUp = cacheConnected
    /\ fxCache = {}
    /\ pc = [id \in SearchIds |-> "none"]
    /\ local = [id \in SearchIds |-> NoLocal]
    /\ exc = [id \in SearchIds |-> None]
    /\ hist = [id \in SearchIds |-> NoHist]

OrchIdle ==
    /\ oCall = [connectors |-> <<>>, retries |-> 0, max_parallel |-> 0,
                timeout_seconds |-> 0]
    /\ oSem = 0
    /\ oTask = <<>>
    /\ oResults = None

\* SearchWorker.__init__: no task launched, shutdown not called, both
\* transports open.
LifeIdle ==
    /\ _tasks = {}
    /\ taskOf = <<>>
    /\ shutdownState = [pc |-> "idle", awaited |-> {}]
    /\ closed = {}

HashIdle ==
    /\ hashIn = <<>>
    /\ hashOut = None

\* No call made.
PipeIdle ==
    /\ pipeIn = <<>>
    /\ pipeOut = None

Init == WorkerInit /\ OrchIdle /\ LifeIdle /\ HashIdle /\ PipeIdle

\* A semaphore that admits every coroutine.
CanAcquire_Always(value) == TRUE

\* Semaphore.acquire returns only while a slot is free.
CanAcquire(value) == value > 0

\* A loop that runs one iteration too many.
MoreAttempts_OneExtra(attempt, retries) == attempt < retries + 2

\* "for _ in range(retries + 1)": whether another iteration follows the
\* attempt-th one.
MoreAttempts(attempt, retries) == attempt < retries + 1

\* A gather that keeps only the results of the connectors that succeeded.
GatherResults_OnlySuccesses(tasks) ==
    LET Succeeded(task) == task.result[1].status = "success"
        kept == FilterSeq(Succeeded, tasks)
    IN  [i \in 1..Len(kept) |-> kept[i].result[1]]

\* The list asyncio.gather returns: one result per coroutine, in order.
GatherResults(tasks) == [i \in 1..Len(tasks) |-> tasks[i].result[1]]

\* A worker that writes every result to the cache, empty or not.
ShouldCache_Always(ranked) == TRUE

\* "if ranked:" before the cache write: only a non-empty result is cached.
ShouldCache(ranked) == ranked # <<>>

\* "if cached_payload:" after the cache read: a payload is a dict with keys.
IsCacheHit(value) == value # None

\* A _mark_failed that records the message but not the completion time.
FailedRow_NoCompletedAt(row, error_message) ==
    [row EXCEPT !.status = "failed", !.error_message = Some(error_message)]

\* A _mark_failed that records the message and leaves the status alone.
FailedRow_StatusKept(row, error_message) ==
    [row EXCEPT !.error_message = Some(error_message),
                !.completed_at = Some("now")]

\* The row as _mark_failed commits it.
FailedRow(row, error_message) ==
    [row EXCEPT !.status = "failed",
                !.error_message = Some(error_message),
                !.completed_at = Some("now")]

\* The row as _persist_result commits it.
CompletedRow(row) ==
    [row EXCEPT !.status = "completed",
                !.error_message = None,
                !.completed_at = Some("now")]

\* A first commit of _run that sets the status and not the start time.
RunningRow_WithoutStartTime(row) == [row EXCEPT !.status = "running"]

\* The row as _run commits it before the cache is read.
RunningRow(row) ==
    [row EXCEPT !.status = "running", !.started_at = Some("now")]

\* A resolution check that lets an empty connector list through.
NoConnectors_Never(connectors) == FALSE

\* _run, line 87: "if not connectors".
NoConnectors(connectors) == connectors = <<>>

\* _run's except clause: remember the exception and go to _mark_failed.
\* The locals of the try block are not used again.
Raise(id, e) ==
    /\ exc' = [exc EXCEPT ![id] = Some(e)]
    /\ pc' = [pc EXCEPT ![id] = "mark_failed"]
    /\ local' = [local EXCEPT ![id] = NoLocal]

\* create_search: the row is committed as queued and launch starts its _run.
CreateSearch(id, body) ==
    /\ ~searches[id].exists
    /\ pc[id] = "none"
    /\ \A other \in SearchIds : other < id => searches[other].exists
    /\ LET requested_sources ==
               IF body.sources # <<>> THEN body.sources ELSE default_sources
           payload == [body EXCEPT !.sources = requested_sources]
       IN  searches' = [searches EXCEPT ![id] =
               [exists |-> TRUE, status |-> "queued", error_message |-> None,
                started_at |-> None, completed_at |-> None,
                query |-> payload, query_hash |-> build_query_hash(payload)]]
    /\ pc' = [pc EXCEPT ![id] = "start"]
    /\ UNCHANGED <<offerRows, runRows, redisStore, redisUp, cacheConnected,
                   fxCache, local, exc, hist, orchVars, lifeVars, hashVars, pipeVars>>

\* A _run that does not test whether session.get found the row.
Start_WithoutAbsentCheck(id) ==
    /\ pc[id] = "start"
    /\ \E db \in {"ok", "get_raises", "commit_raises"} :
        IF db = "ok"
        THEN /\ searches' = [searches EXCEPT ![id] = RunningRow(@)]
             /\ local' = [local EXCEPT ![id].query = searches[id].query,
                                       ![id].query_hash = searches[id].query_hash]
             /\ pc' = [pc EXCEPT ![id] = "cache_get"]
             /\ UNCHANGED exc
        ELSE /\ Raise(id, DbError(IF db = "get_raises" THEN "load" ELSE "commit_running"))
             /\ UNCHANGED searches
    /\ UNCHANGED <<offerRows, runRows, redisStore, redisUp, cacheConnected,
                   fxCache, hist, orchVars, lifeVars, hashVars, pipeVars>>

\* SearchWorker.launch called with an id no SearchRequest row has (launch is
\* public and takes any id): its _run starts like any other.
LaunchAbsent(id) ==
    /\ ~searches[id].exists
    /\ pc[id] = "none"
    /\ \A other \in SearchIds : other < id => searches[other].exists
    /\ pc' = [pc EXCEPT ![id] = "start"]
    /\ UNCHANGED <<searches, offerRows, runRows, redisStore, redisUp,
                   cacheConnected, fxCache, local, exc, hist, orchVars, lifeVars,
                   hashVars, pipeVars>>

\* _run, lines 67-77: load the request, commit status running; when
\* session.get returns None, log a warning and return.
Start(id) ==
    /\ pc[id] = "start"
    /\ \E db \in {"ok", "get_raises", "commit_raises"} :
        IF db = "get_raises"
        THEN /\ Raise(id, DbError("load"))
             /\ UNCHANGED searches
        ELSE IF ~searches[id].exists
        THEN /\ db = "ok"
             /\ pc' = [pc EXCEPT ![id] = "done"]
             /\ UNCHANGED <<searches, local, exc>>
        ELSE IF db = "ok"
        THEN /\ searches' = [searches EXCEPT ![id] = RunningRow(@)]
             /\ local' = [local EXCEPT ![id].query = searches[id].query,
                                       ![id].query_hash = searches[id].query_hash]
             /\ pc' = [pc EXCEPT ![id] = "cache_get"]
             /\ UNCHANGED exc
        ELSE /\ Raise(id, DbError("commit_running"))
             /\ UNCHANGED searches
    /\ UNCHANGED <<offerRows, runRows, redisStore, redisUp, cacheConnected,
                   fxCache, hist, orchVars, lifeVars, hashVars, pipeVars>>

\* _run, lines 79-80: read the cache.
CacheGet(id) ==
    /\ pc[id] = "cache_get"
    /\ LET got == get_json(cacheConnected, redisUp, redisStore,
                           cache_key_for_query_hash(local[id].query_hash))
       IN  IF got.raised
           THEN /\ Raise(id, RedisError("cache_get"))
                /\ UNCHANGED hist
           ELSE /\ local' = [local EXCEPT ![id].cached_payload = got.value]
                /\ pc' = [pc EXCEPT ![id] =
                       IF IsCacheHit(got.value) THEN "hydrate" ELSE "orchestrate"]
                /\ hist' = [hist EXCEPT ![id].cache_hit = IsCacheHit(got.value)]
                /\ UNCHANGED exc
    /\ UNCHANGED <<searches, offerRows, runRows, redisStore, redisUp,
                   cacheConnected, fxCache, orchVars, lifeVars, hashVars, pipeVars>>

\* A persistence that commits the rows without the status change.
PersistResult_WithoutStatus(id, offers, connector_runs) ==
    /\ offerRows' = [offerRows EXCEPT ![id] = MapSeq(OfferRow, offers)]
    /\ runRows' = [runRows EXCEPT ![id] = MapSeq(RunRow, connector_runs)]
    /\ searches' = searches

\* _persist_result: in one transaction, replace the rows of the search and
\* set it completed; when the commit raises nothing is written.
PersistResult(id, offers, connector_runs) ==
    /\ offerRows' = [offerRows EXCEPT ![id] = MapSeq(OfferRow, offers)]
    /\ runRows' = [runRows EXCEPT ![id] = MapSeq(RunRow, connector_runs)]
    /\ searches' = [searches EXCEPT ![id] = CompletedRow(@)]

\* _run, lines 81-83, and _hydrate_from_cache: persist the cached payload.
Hydrate(id) ==
    /\ pc[id] = "hydrate"
    /\ UNCHANGED <<redisStore, redisUp, cacheConnected, fxCache, hist, orchVars, lifeVars, hashVars, pipeVars>>
    /\ LET payload == local[id].cached_payload[1]
           offers == MapSeq(from_jsonable, payload.offers)
           runs == MapSeq(HydrateRun, payload.connector_runs)
       IN  \E db \in {"ok", "raises"} :
            IF db = "ok"
            THEN /\ pc' = [pc EXCEPT ![id] = "done"]
                 /\ local' = [local EXCEPT ![id] = NoLocal]
                 /\ UNCHANGED exc
                 /\ PersistResult(id, offers, runs)
            ELSE /\ Raise(id, DbError("persist"))
                 /\ UNCHANGED <<searches, offerRows, runRows>>

\* The outcomes of the retries + 1 attempts of each connector, given how
\* each connector behaves.
WorkerOutcomes(connectors, behaviours, retries) ==
    [i \in 1..Len(connectors) |->
        [k \in 1..(retries + 1) |-> BehaviourOutcome(connectors[i], behaviours[i])]]

\* _run, lines 85-96: resolve the connectors and run them.
Orchestrate(id) ==
    /\ pc[id] = "orchestrate"
    /\ UNCHANGED <<searches, offerRows, runRows, redisStore, redisUp,
                   cacheConnected, fxCache, orchVars, lifeVars, hashVars, pipeVars>>
    /\ LET query == local[id].query
           source_list == IF query.sources # <<>> THEN query.sources ELSE default_sources
       IN  \E connectors \in {build(source_list)} :
           IF NoConnectors(connectors)
           THEN /\ Raise(id, Exc("RuntimeError", "No valid connectors requested", "resolve"))
                /\ UNCHANGED hist
           ELSE \E behaviours \in [1..Len(connectors) -> ConnectorBehaviours] :
                \E outcomes \in {WorkerOutcomes(connectors, behaviours, connector_retries)} :
                \* gather returns once every coroutine got a semaphore slot.
                /\ CanAcquire(max_parallel_connectors)
                /\ pc' = [pc EXCEPT ![id] = "normalize"]
                /\ UNCHANGED exc
                /\ local' = [local EXCEPT ![id].runs =
                       execute_connectors(connectors, outcomes,
                                          connector_timeout_seconds, connector_retries)]
                /\ hist' = [hist EXCEPT
                       ![id].connector_calls = @ +
                           SumSeq([i \in 1..Len(connectors) |->
                               AttemptsMade(outcomes[i], connector_retries + 1)])]

\* The currency pairs normalize_offers needs a rate for.
PairsNeeded(offers, target_currency) ==
    {<<Upper(offers[i].currency), Upper(target_currency)>> :
        i \in {j \in 1..Len(offers) : NeedsRate(offers[j], target_currency)}}

\* _run, lines 98-100: the offers of all run results, in result order.
RawOffers(runs) == Concat([i \in 1..Len(runs) |-> runs[i].offers])

\* A pipeline that skips the ranking stage.
Pipeline_WithoutRanking(raw_offers, query) ==
    LET normalize(offers) == normalize_offers(offers, query.currency, FxQuote)
        filter(offers) == filter_offers_by_stops(offers, query.stop_preference)
        cap(offers) == Cap(offers, max_offers_per_search)
    IN  Then(Then(Then(Then(raw_offers, normalize), filter),
                 deduplicate_offers), cap)

\* _run, lines 102-105: normalize, filter, dedup, rank and cap.
Pipeline(raw_offers, query) ==
    LET normalize(offers) == normalize_offers(offers, query.currency, FxQuote)
        filter(offers) == filter_offers_by_stops(offers, query.stop_preference)
        cap(offers) == Cap(offers, max_offers_per_search)
    IN  Then(Then(Then(Then(Then(raw_offers, normalize), filter),
                 deduplicate_offers), rank_offers), cap)

\* _run, lines 98-105: the FX fetch of normalize_offers may raise.
Normalize(id) ==
    /\ pc[id] = "normalize"
    /\ UNCHANGED <<searches, offerRows, runRows, redisStore, redisUp,
                   cacheConnected, hist, orchVars, lifeVars, hashVars, pipeVars>>
    /\ \E raw_offers \in {RawOffers(local[id].runs)} :
       \E needed \in {PairsNeeded(raw_offers, local[id].query.currency)} :
       \E fx \in {"ok", "unavailable"} :
            \* FxService.get_rate fetches only a pair that is not cached.
            /\ needed \subseteq fxCache => fx = "ok"
            /\ IF fx = "ok"
               THEN /\ pc' = [pc EXCEPT ![id] = "validate"]
                    /\ UNCHANGED exc
                    /\ fxCache' = fxCache \cup needed
                    /\ local' = [local EXCEPT ![id].ranked =
                           Pipeline(raw_offers, local[id].query)]
               ELSE /\ Raise(id, Exc("ValueError", "FX rate unavailable from USD to MYR",
                                     "normalize"))
                    /\ UNCHANGED fxCache

\* _run, line 106: _validate_links sets every offer's deep_link_valid.
ValidateLinks(id) ==
    /\ pc[id] = "validate"
    /\ pc' = [pc EXCEPT ![id] = "persist"]
    /\ UNCHANGED <<searches, offerRows, runRows, redisStore, redisUp,
                   cacheConnected, fxCache, exc, hist, orchVars, lifeVars, hashVars, pipeVars>>
    /\ \E probes \in ProbeChoices(local[id].ranked) :
        local' = [local EXCEPT ![id].ranked = validate_links(@, probes)]

\* _run, lines 108-113: persist; without offers nothing more is awaited.
Persist(id) ==
    /\ pc[id] = "persist"
    /\ UNCHANGED <<redisStore, redisUp, cacheConnected, fxCache, hist, orchVars, lifeVars, hashVars, pipeVars>>
    /\ \E db \in {"ok", "raises"} :
        IF db = "ok"
        THEN /\ pc' = [pc EXCEPT ![id] =
                    IF ShouldCache(local[id].ranked) THEN "cache_set" ELSE "done"]
             /\ local' = IF ShouldCache(local[id].ranked) THEN local
                         ELSE [local EXCEPT ![id] = NoLocal]
             /\ UNCHANGED exc
             /\ PersistResult(id, local[id].ranked, local[id].runs)
        ELSE /\ Raise(id, DbError("persist"))
             /\ UNCHANGED <<searches, offerRows, runRows>>

\* _run, lines 113-129: write the payload to the cache.
CacheSet(id) ==
    /\ pc[id] = "cache_set"
    /\ UNCHANGED <<searches, offerRows, runRows, redisUp, cacheConnected,
                   fxCache, hist, orchVars, lifeVars, hashVars, pipeVars>>
    /\ LET put == set_json(cacheConnected, redisUp, redisStore,
                           cache_key_for_query_hash(local[id].query_hash),
                           CachePayload(local[id].ranked, local[id].runs))
       IN  IF put.raised
           THEN /\ Raise(id, RedisError("cache_set"))
                /\ UNCHANGED redisStore
           ELSE /\ pc' = [pc EXCEPT ![id] = "done"]
                /\ local' = [local EXCEPT ![id] = NoLocal]
                /\ UNCHANGED exc
                /\ redisStore' = put.store

\* _run's except clause, lines 138-140, and _mark_failed. When its own
\* commit raises, the exception leaves the task and the row stays as it is;
\* when session.get returns None it returns without a commit.
MarkFailed(id) ==
    /\ pc[id] = "mark_failed"
    /\ \E db \in {"ok", "raises"} :
        IF db = "ok"
        THEN /\ searches' = [searches EXCEPT ![id] =
                    IF @.exists THEN FailedRow(@, exc[id][1].msg) ELSE @]
             /\ pc' = [pc EXCEPT ![id] = "done"]
        ELSE /\ pc' = [pc EXCEPT ![id] = "crashed"]
             /\ UNCHANGED searches
    /\ UNCHANGED <<offerRows, runRows, redisStore, redisUp, cacheConnected,
                   fxCache, local, exc, hist, orchVars, lifeVars, hashVars, pipeVars>>

\* The Redis server stops answering.
RedisDown ==
    /\ cacheConnected
    /\ redisUp
    /\ redisUp' = FALSE
    /\ UNCHANGED <<searches, offerRows, runRows, redisStore, cacheConnected,
                   fxCache, pc, local, exc, hist, orchVars, lifeVars, hashVars, pipeVars>>

\* The Redis server answers again.
RedisBack ==
    /\ cacheConnected
    /\ ~redisUp
    /\ redisUp' = TRUE
    /\ UNCHANGED <<searches, offerRows, runRows, redisStore, cacheConnected,
                   fxCache, pc, local, exc, hist, orchVars, lifeVars, hashVars, pipeVars>>

\* The TTL of a cached payload (ex=ttl_seconds) runs out.
Expire(key) ==
    /\ redisStore[key] # None
    /\ redisStore' = [redisStore EXCEPT ![key] = None]
    /\ UNCHANGED <<searches, offerRows, runRows, redisUp, cacheConnected,
                   fxCache, pc, local, exc, hist, orchVars, lifeVars, hashVars, pipeVars>>

\* The TTL of a cached FX rate runs out.
FxExpire ==
    /\ fxCache # {}
    /\ fxCache' = {}
    /\ UNCHANGED <<searches, offerRows, runRows, redisStore, redisUp,
                   cacheConnected, pc, local, exc, hist, orchVars, lifeVars, hashVars, pipeVars>>

\* One step of the task that runs _run(id).
TaskStep(id) ==
    \/ Start(id)
    \/ CacheGet(id)
    \/ Hydrate(id)
    \/ Orchestrate(id)
    \/ Normalize(id)
    \/ ValidateLinks(id)
    \/ Persist(id)
    \/ CacheSet(id)
    \/ MarkFailed(id)

WorkerStep == \E id \in SearchIds : TaskStep(id)

Next ==
    \/ \E id \in SearchIds : \E body \in Queries : CreateSearch(id, body)
    \/ \E id \in SearchIds : LaunchAbsent(id)
    \/ WorkerStep
    \/ RedisDown
    \/ RedisBack
    \/ \E key \in AllCacheKeys : Expire(key)
    \/ FxExpire

Spec == Init /\ [][Next]_vars

\* The event loop runs every task that is ready: a task whose next await has
\* an outcome is resumed eventually.
FairSpec == Spec /\ \A id \in SearchIds : WF_vars(TaskStep(id))

\* ------------------------------------------- one execute_connectors call

\* The connectors of a call of n connectors.
Roster(n) == [i \in 1..n |-> IF i % 2 = 1 THEN "trip_com" ELSE "airasia"]

\* What one attempt on a connector can do in SpecOrch.
AttemptOutcomes(name, timeout_seconds) ==
    {OkOutcome(ConnectorOffers(name)),
     OkOutcome(<<>>),
     DeadlineOutcome(timeout_seconds),
     RaiseOutcome("ConnectorExecutionError", "upstream failed"),
     RaiseOutcome("AssertionError", ""),
     RaiseOutcome("TimeoutError", "read timed out")}

\* A _guarded coroutine before it is scheduled: waiting for the semaphore.
\* status, last_error and elapsed are the locals of _run_single, `attempt`
\* counts the attempts started, and `last` is the outcome of the attempt that
\* ended most recently (history).
NewTask ==
    [pc |-> "acquire", attempt |-> 0, status |-> "error", last_error |-> None,
     elapsed |-> 0, last |-> None, result |-> None]

OrchInit ==
    /\ \E n \in 1..MaxConnectors, retries \in 0..MaxRetries, max_parallel \in 1..MaxParallel :
        /\ oCall = [connectors |-> Roster(n), retries |-> retries,
                    max_parallel |-> max_parallel,
                    timeout_seconds |-> connector_timeout_seconds]
        \* semaphore = asyncio.Semaphore(max_parallel)
        /\ oSem = max_parallel
        /\ oTask = [i \in 1..n |-> NewTask]
    /\ oResults = None

WorkerIdle ==
    /\ searches = [id \in SearchIds |-> NoRow]
    /\ offerRows = [id \in SearchIds |-> <<>>]
    /\ runRows = [id \in SearchIds |-> <<>>]
    /\ redisStore = [key \in AllCacheKeys |-> None]
    /\ redisUp = FALSE
    /\ cacheConnected = FALSE
    /\ fxCache = {}
    /\ pc = [id \in SearchIds |-> "none"]
    /\ local = [id \in SearchIds |-> NoLocal]
    /\ exc = [id \in SearchIds |-> None]
    /\ hist = [id \in SearchIds |-> NoHist]

InitOrch == OrchInit /\ WorkerIdle /\ LifeIdle /\ HashIdle /\ PipeIdle

\* "async with semaphore" admits the coroutine: it takes a slot and runs
\* without suspending into the first asyncio.wait_for of _run_single.
Acquire(i) ==
    /\ oTask[i].pc = "acquire"
    /\ CanAcquire(oSem)
    /\ oSem' = oSem - 1
    /\ oTask' = [oTask EXCEPT ![i].pc = "attempt", ![i].attempt = 1]
    /\ UNCHANGED <<oCall, oResults, workerVars, lifeVars, hashVars, pipeVars>>

\* The attempt in flight ends. On success _run_single returns at once; on a
\* timeout or an error the loop starts the next attempt, or after the last
\* one returns the failure. Returning leaves "async with": the slot is freed.
AttemptEnds(i, outcome) ==
    /\ oTask[i].pc = "attempt"
    /\ LET task == oTask[i]
           name == oCall.connectors[i]
           elapsed == task.elapsed + outcome.ms
           last == Some(outcome)
       IN  IF AttemptStatus(outcome) = "success"
           THEN /\ oTask' = [oTask EXCEPT ![i] =
                       [task EXCEPT !.pc = "done", !.elapsed = elapsed,
                                    !.last = last,
                                    !.result = Some(SuccessResult(name, outcome.offers,
                                                                  elapsed))]]
                /\ oSem' = oSem + 1
           ELSE LET status == AttemptStatus(outcome)
                    last_error == Some(AttemptError(outcome, oCall.timeout_seconds))
                IN  IF MoreAttempts(task.attempt, oCall.retries)
                    THEN /\ oTask' = [oTask EXCEPT ![i] =
                                [task EXCEPT !.attempt = @ + 1, !.status = status,
                                             !.last_error = last_error,
                                             !.elapsed = elapsed,
                                             !.last = last]]
                         /\ UNCHANGED oSem
                    ELSE /\ oTask' = [oTask EXCEPT ![i] =
                                [task EXCEPT !.pc = "done", !.status = status,
                                             !.last_error = last_error,
                                             !.elapsed = elapsed,
                                             !.last = last,
                                             !.result = Some(FailureResult(name, status,
                                                                 last_error, elapsed))]]
                         /\ oSem' = oSem + 1
    /\ UNCHANGED <<oCall, oResults, workerVars, lifeVars, hashVars, pipeVars>>

\* asyncio.gather returns once every coroutine has returned, with the
\* results in the order of the connectors.
GatherReturns ==
    /\ oResults = None
    /\ \A i \in 1..Len(oTask) : oTask[i].pc = "done"
    /\ oResults' = Some(GatherResults(oTask))
    /\ UNCHANGED <<oCall, oSem, oTask, workerVars, lifeVars, hashVars, pipeVars>>

NextOrch ==
    \/ \E i \in 1..Len(oTask) : Acquire(i)
    \/ \E i \in 1..Len(oTask) :
        \E outcome \in AttemptOutcomes(oCall.connectors[i], oCall.timeout_seconds) :
            AttemptEnds(i, outcome)
    \/ GatherReturns

SpecOrch == InitOrch /\ [][NextOrch]_vars

\* ------------------------------------------------------ the task registry

\* The handles of the tasks launch has created, and those still executing.
Handles == 1..Len(taskOf)

RunningTasks == {h \in Handles : taskOf[h].state = "running"}

\* launch: create_task starts _run(search_id), the handle is added to
\* _tasks and the done callback is registered. `during` records where the
\* shutdown coroutine was at that moment (history).
launch(search_id) ==
    /\ Len(taskOf) < MaxLaunches
    /\ taskOf' = Append(taskOf, [search_id |-> search_id, state |-> "running",
                                 during |-> shutdownState.pc])
    /\ _tasks' = _tasks \cup {Len(taskOf) + 1}
    /\ UNCHANGED <<shutdownState, closed, workerVars, orchVars, hashVars, pipeVars>>

\* _run returns or raises: the task is done and the event loop schedules its
\* done callback.
TaskEnds(h) ==
    /\ taskOf[h].state = "running"
    /\ taskOf' = [taskOf EXCEPT ![h].state = "finished"]
    /\ UNCHANGED <<_tasks, shutdownState, closed, workerVars, orchVars, hashVars, pipeVars>>

\* The done callback of a finished task runs: self._tasks.discard(task).
DoneCallback(h) ==
    /\ taskOf[h].state = "finished"
    /\ h \in _tasks
    /\ _tasks' = _tasks \ {h}
    /\ UNCHANGED <<taskOf, shutdownState, closed, workerVars, orchVars, hashVars, pipeVars>>

\* shutdown is called (once, by lifespan): with registered tasks it awaits
\* gather(*self._tasks), whose arguments are the tasks registered now;
\* without any it goes on to close the transports.
shutdown ==
    /\ shutdownState.pc = "idle"
    /\ shutdownState' = IF _tasks # {}
                        THEN [pc |-> "gather", awaited |-> _tasks]
                        ELSE [pc |-> "close_fx", awaited |-> {}]
    /\ UNCHANGED <<_tasks, taskOf, closed, workerVars, orchVars, hashVars, pipeVars>>

\* gather returns once every task it was given is done.
ShutdownGathered ==
    /\ shutdownState.pc = "gather"
    /\ \A h \in shutdownState.awaited : taskOf[h].state = "finished"
    /\ shutdownState' = [shutdownState EXCEPT !.pc = "close_fx"]
    /\ UNCHANGED <<_tasks, taskOf, closed, workerVars, orchVars, hashVars, pipeVars>>

\* await self._fx_service.close()
CloseFx ==
    /\ shutdownState.pc = "close_fx"
    /\ closed' = closed \cup {"fx_service"}
    /\ shutdownState' = [shutdownState EXCEPT !.pc = "close_link_validator"]
    /\ UNCHANGED <<_tasks, taskOf, workerVars, orchVars, hashVars, pipeVars>>

\* await self._link_validator.close()
CloseLinkValidator ==
    /\ shutdownState.pc = "close_link_validator"
    /\ closed' = closed \cup {"link_validator"}
    /\ shutdownState' = [shutdownState EXCEPT !.pc = "done"]
    /\ UNCHANGED <<_tasks, taskOf, workerVars, orchVars, hashVars, pipeVars>>

InitLife == LifeIdle /\ WorkerIdle /\ OrchIdle /\ HashIdle /\ PipeIdle

NextLife ==
    \/ \E search_id \in SearchIds : launch(search_id)
    \/ \E h \in Handles : TaskEnds(h)
    \/ \E h \in Handles : DoneCallback(h)
    \/ shutdown
    \/ ShutdownGathered
    \/ CloseFx
    \/ CloseLinkValidator

SpecLife == InitLife /\ [][NextLife]_vars

\* ------------------------------------------------------- two query hashes

\* The day number of the dates the model uses (date comparison).
DateOrdinal(text) ==
    CASE text = "2026-03-01" -> 1
      [] text = "2026-03-20" -> 20
      [] text = "2026-03-21" -> 21
      [] text = "2026-03-25" -> 25
      [] OTHER -> 0

\* The items _normalize_sources keeps, and what it makes of each.
NotBlank(item) == Strip(item) # ""

StripLower(item) == Lower(Strip(item))

StripUpper(value) == Upper(Strip(value))

\* SearchCreateRequest._normalize_sources on a list (or None).
_normalize_sources(value) ==
    IF value = None THEN None ELSE MapSeq(StripLower, FilterSeq(NotBlank, value))

\* SearchCreateRequest._validate_dates: whether the body is accepted.
_validate_dates(query) ==
    /\ ~(query.trip_type = "round_trip" /\ query.return_date = None)
    /\ query.return_date # None =>
          DateOrdinal(query.return_date[1]) >= DateOrdinal(query.departure_date)

\* The SearchCreateRequest the field validators build from a request body.
model_validate(body) ==
    [body EXCEPT !.origin = StripUpper(@), !.destination = StripUpper(@),
                 !.currency = StripUpper(@), !.sources = _normalize_sources(@)]

\* A request body and the ways another body differs from it.
HashBase == [BaseQuery EXCEPT !.sources = <<"trip_com", "airasia">>]

HashBodies ==
    {HashBase,
     \* the same query written differently
     [HashBase EXCEPT !.origin = "kul"],
     [HashBase EXCEPT !.destination = "bkk"],
     [HashBase EXCEPT !.currency = "myr"],
     [HashBase EXCEPT !.sources = <<"airasia", "trip_com">>],
     [HashBase EXCEPT !.sources = <<"AirAsia", "TRIP_COM">>],
     [HashBase EXCEPT !.sources = <<" airasia ", "   ", "Trip_Com">>],
     [HashBase EXCEPT !.origin = "kul", !.currency = "myr",
                      !.sources = <<" AirAsia", "trip_com">>],
     \* another query
     [HashBase EXCEPT !.origin = "PEN"],
     [HashBase EXCEPT !.destination = "SIN"],
     [HashBase EXCEPT !.departure_date = "2026-03-21"],
     [HashBase EXCEPT !.return_date = Some("2026-03-25")],
     [HashBase EXCEPT !.return_date = Some("2026-03-25"), !.trip_type = "round_trip"],
     [HashBase EXCEPT !.adults = 2],
     [HashBase EXCEPT !.children = 1],
     [HashBase EXCEPT !.infants = 1],
     [HashBase EXCEPT !.cabin = "business"],
     [HashBase EXCEPT !.currency = "usd"],
     [HashBase EXCEPT !.stop_preference = "non_stop"],
     [HashBase EXCEPT !.sources = <<"airasia">>],
     [HashBase EXCEPT !.sources = <<"airasia", "trip_com", "airasia">>],
     [HashBase EXCEPT !.sources = <<"trip_com", "bogus">>],
     [HashBase EXCEPT !.sources = None],
     \* bodies the validators reject
     [HashBase EXCEPT !.trip_type = "round_trip"],
     [HashBase EXCEPT !.return_date = Some("2026-03-01")]}

\* Two bodies are given; nothing is computed yet.
InitHash ==
    /\ hashIn \in HashBodies \X HashBodies
    /\ hashOut = None
    /\ WorkerIdle /\ OrchIdle /\ LifeIdle /\ PipeIdle

\* Both bodies pass validation and build_query_hash is applied to each query.
HashBoth ==
    /\ hashOut = None
    /\ \E queries \in {MapSeq(model_validate, hashIn)} :
        /\ \A i \in 1..2 : _validate_dates(queries[i])
        /\ hashOut' = Some([queries |-> queries,
                            hashes |-> MapSeq(build_query_hash, queries)])
    /\ UNCHANGED <<hashIn, workerVars, orchVars, lifeVars, pipeVars>>

\* A body is rejected with a validation error: no query, no hash.
Rejected ==
    /\ hashOut = None
    /\ \E i \in 1..2 : ~_validate_dates(model_validate(hashIn[i]))
    /\ hashOut' = Some([queries |-> <<>>, hashes |-> <<>>])
    /\ UNCHANGED <<hashIn, workerVars, orchVars, lifeVars, pipeVars>>

NextHash == HashBoth \/ Rejected

SpecHash == InitHash /\ [][NextHash]_vars

\* ------------------------------------------- one call of a pipeline function

\* The offers the calls are made with, and the lists of them.
OfferPool == {OfferA, OfferB, OfferC, OfferD, OfferE, OfferF, OfferG}

OfferLists == UNION {[1..n -> OfferPool] : n \in 0..MaxOffers}

StopPreferences == {"any", "non_stop", "with_stops", "multiple_stops"}

\* The rates the FX provider may quote: 4.47 and 0.25.
FxRates == {FxQuote, [num |-> 1, den |-> 4]}

\* The Offer rows of searches, with their ids: flights of three airlines,
\* one of them written in lower case by a connector, three of the rows with
\* the same price, stops and duration.
StoredOffer(id, airline, flight_number, total_price, stops, duration_minutes) ==
    [f \in DOMAIN OfferRow(OfferA) \cup {"id"} |->
        IF f = "id" THEN id
        ELSE OfferRow([OfferA EXCEPT !.airline = airline,
                                     !.flight_numbers = <<flight_number>>,
                                     !.total_price = total_price,
                                     !.stops = stops,
                                     !.duration_minutes = duration_minutes])[f]]

StoredOffers ==
    {StoredOffer("o1", "AK", "AK881", 29000, 0, 130),
     StoredOffer("o2", "AK", "AK883", 29000, 0, 130),
     StoredOffer("o3", "MH", "MH780", 29000, 0, 130),
     StoredOffer("o4", "ak", "AK885", 30000, 1, 180),
     StoredOffer("o5", "MH", "MH782", 31000, 0, 125),
     StoredOffer("o6", "TG", "TG416", 28000, 1, 150)}

\* What the query of get_search can return: rows of one search, each once,
\* ascending by (total_price, stops, duration_minutes), ties in any order.
ResultSets ==
    {rows \in UNION {[1..n -> StoredOffers] : n \in 0..(MaxOffers + 1)} :
        /\ \A i, j \in 1..Len(rows) : rows[i] = rows[j] => i = j
        /\ \A i, j \in 1..Len(rows) : i < j => ~RankLess(rows[j], rows[i])}

\* The values of the setting max_offers_per_search, the default among them.
OfferCaps == {1, 2, 3, 4, 7, max_offers_per_search}

\* A call: the function and its arguments (those it does not take are fixed).
Call(fn, offers, stop_preference, target_currency, rate, probes, cap) ==
    [fn |-> fn, offers |-> offers, stop_preference |-> stop_preference,
     target_currency |-> target_currency, rate |-> rate, probes |-> probes,
     max_offers_per_search |-> cap]

InitPipe ==
    /\ \/ \E offers \in OfferLists, stop_preference \in StopPreferences :
            pipeIn = Call("filter_offers_by_stops", offers, stop_preference,
                          "MYR", FxQuote, <<>>, max_offers_per_search)
       \/ \E offers \in OfferLists :
            pipeIn = Call("deduplicate_offers", offers, "any", "MYR", FxQuote, <<>>,
                          max_offers_per_search)
       \/ \E offers \in OfferLists :
            pipeIn = Call("rank_offers", offers, "any", "MYR", FxQuote, <<>>,
                          max_offers_per_search)
       \/ \E offers \in OfferLists, target_currency \in {"MYR", "myr", "usd"},
             rate \in FxRates :
            pipeIn = Call("normalize_offers", offers, "any", target_currency, rate, <<>>,
                          max_offers_per_search)
       \/ \E offers \in OfferLists :
          \E probes \in ProbeChoices(offers) :
            pipeIn = Call("_validate_links", offers, "any", "MYR", FxQuote, probes,
                          max_offers_per_search)
       \/ \E offers \in ResultSets, cap \in OfferCaps :
            pipeIn = Call("_select_alternative_offers", offers, "any", "MYR", FxQuote,
                          <<>>, cap)
    /\ pipeOut = None
    /\ WorkerIdle /\ OrchIdle /\ LifeIdle /\ HashIdle

CallFilter ==
    /\ pipeOut = None
    /\ pipeIn.fn = "filter_offers_by_stops"
    /\ pipeOut' = Some(filter_offers_by_stops(pipeIn.offers, pipeIn.stop_preference))
    /\ UNCHANGED <<pipeIn, workerVars, orchVars, lifeVars, hashVars>>

CallDedup ==
    /\ pipeOut = None
    /\ pipeIn.fn = "deduplicate_offers"
    /\ pipeOut' = Some(deduplicate_offers(pipeIn.offers))
    /\ UNCHANGED <<pipeIn, workerVars, orchVars, lifeVars, hashVars>>

CallRank ==
    /\ pipeOut = None
    /\ pipeIn.fn = "rank_offers"
    /\ pipeOut' = Some(rank_offers(pipeIn.offers))
    /\ UNCHANGED <<pipeIn, workerVars, orchVars, lifeVars, hashVars>>

\* normalize_offers with the rate the FX service returns for the pair needed.
CallNormalize ==
    /\ pipeOut = None
    /\ pipeIn.fn = "normalize_offers"
    /\ pipeOut' = Some(normalize_offers(pipeIn.offers, pipeIn.target_currency,
                                        pipeIn.rate))
    /\ UNCHANGED <<pipeIn, workerVars, orchVars, lifeVars, hashVars>>

\* _validate_links sets the flags in place; pipeOut is the batch afterwards.
CallValidateLinks ==
    /\ pipeOut = None
    /\ pipeIn.fn = "_validate_links"
    /\ pipeOut' = Some(validate_links(pipeIn.offers, pipeIn.probes))
    /\ UNCHANGED <<pipeIn, workerVars, orchVars, lifeVars, hashVars>>

\* get_search, lines 176-178: the alternatives of the response, from the
\* offers of the search in the order of the query.
CallAlternatives ==
    /\ pipeOut = None
    /\ pipeIn.fn = "_select_alternative_offers"
    /\ pipeOut' = Some(_select_alternative_offers(
                        pipeIn.offers, alternative_limit(pipeIn.max_offers_per_search)))
    /\ UNCHANGED <<pipeIn, workerVars, orchVars, lifeVars, hashVars>>

NextPipe ==
    \/ CallAlternatives
    \/ CallFilter
    \/ CallDedup
    \/ CallRank
    \/ CallNormalize
    \/ CallValidateLinks

SpecPipe == InitPipe /\ [][NextPipe]_vars

\* ---------------------------------------------------------------- properties

\* A run of _run has ended: normally, or with an exception leaving the task.
Ended(id) == pc[id] \in {"done", "crashed"}

Terminal == {"completed", "failed"}

\* C1 (as the specification states it): once a search's status is completed
\* or failed, no later step changes it. The worker breaks this when the cache
\* write after a committed _persist_result raises: the except clause then
\* overwrites completed with failed.
C1_TerminalStatusIsFinal ==
    [][\A id \in SearchIds :
          searches[id].status \in Terminal =>
              searches'[id].status = searches[id].status]_vars

\* C2 (as the specification states it): no search is failed by a cache call;
\* get_json and set_json never raise. The client has no try around its Redis
\* calls, so a server that stops answering after connect() fails the search.
C2_CacheNeverFailsSearch ==
    \A id \in SearchIds :
        searches[id].status = "failed" =>
            exc[id][1].stage \notin {"cache_get", "cache_set"}

\* C3: an empty ranked result is never cached: every cached payload holds at
\* least one offer, a run reaches the cache write only with a non-empty ranked
\* list, and every cache hit replays a completed cache-miss run of the same
\* query hash that persisted offers; so a search that follows an empty result
\* misses the cache and runs the connectors again.
C3_EmptyResultNeverCached ==
    /\ \A key \in AllCacheKeys :
          redisStore[key] # None => redisStore[key][1].offers # <<>>
    /\ \A id \in SearchIds :
          pc[id] = "cache_set" => local[id].ranked # <<>>
    /\ \A id \in SearchIds :
          hist[id].cache_hit =>
              \E other \in SearchIds \ {id} :
                  /\ searches[other].query_hash = searches[id].query_hash
                  /\ ~hist[other].cache_hit
                  /\ pc[other] = "done"
                  /\ offerRows[other] # <<>>

\* C3's case: with the cache reachable, a search completed with no offers and
\* a second search of the same query hash missed the cache and called the
\* connectors.
C3_Witness ==
    /\ cacheConnected
    /\ redisUp
    /\ \E a, b \in SearchIds :
          /\ a # b
          /\ searches[a].exists /\ searches[b].exists
          /\ searches[a].query_hash = searches[b].query_hash
          /\ pc[a] = "done" /\ searches[a].status = "completed"
          /\ ~hist[a].cache_hit /\ offerRows[a] = <<>>
          /\ pc[b] = "normalize" /\ ~hist[b].cache_hit
          /\ hist[b].connector_calls > 0

\* A completed cache-miss run of the same query hash whose persisted rows are
\* the rows of search id: the run whose result the cache replayed.
ReplaysMissRun(id) ==
    \E other \in SearchIds \ {id} :
        /\ searches[other].query_hash = searches[id].query_hash
        /\ ~hist[other].cache_hit
        /\ pc[other] = "done"
        /\ offerRows[id] = offerRows[other]
        /\ runRows[id] = runRows[other]

\* C4 (as the specification states it): a run that hit the cache called no
\* connector, persisted exactly the cached offers and run summaries, and ended
\* completed. The last part fails when the commit of _persist_result raises.
C4_CacheHitAlwaysCompletes ==
    \A id \in SearchIds :
        hist[id].cache_hit /\ Ended(id) =>
            /\ hist[id].connector_calls = 0
            /\ searches[id].status = "completed"
            /\ ReplaysMissRun(id)

\* C4 (amended): a run that hit the cache calls no connector and runs no
\* pipeline stage; the only statement of it that can raise is the persistence
\* of the cached payload; and when that commits, the rows of the search are
\* exactly the offers (order and every field, deep_link_valid included) and
\* run summaries the caching run persisted, and the search is completed.
C4_CacheHitReplays ==
    \A id \in SearchIds :
        hist[id].cache_hit =>
            /\ hist[id].connector_calls = 0
            /\ pc[id] \in {"hydrate", "mark_failed", "done", "crashed"}
            /\ exc[id] # None => exc[id][1].stage = "persist"
            /\ pc[id] = "done" /\ exc[id] = None =>
                  /\ searches[id].status = "completed"
                  /\ searches[id].error_message = None
                  /\ searches[id].completed_at # None
                  /\ ReplaysMissRun(id)

\* C4's case: a search completed from the cache with two offers, one with a
\* base price of zero, one with a valid and one with an invalid deep link,
\* and with a failed connector among the run summaries.
C4_Witness ==
    \E id \in SearchIds :
        /\ hist[id].cache_hit
        /\ pc[id] = "done"
        /\ searches[id].status = "completed"
        /\ Len(offerRows[id]) = 2
        /\ \E i \in 1..2 : offerRows[id][i].base_price = Some(0)
        /\ \E i \in 1..2 : offerRows[id][i].deep_link_valid = TRUE
        /\ \E i \in 1..2 : offerRows[id][i].deep_link_valid = FALSE
        /\ \E i \in 1..Len(runRows[id]) : runRows[id][i].status # "success"

C7_ConnectorFailuresDoNotFail ==
    \A id \in SearchIds :
        (/\ searches[id].exists
         /\ ~hist[id].cache_hit /\ pc[id] \in {"cache_set", "done"} /\ exc[id] = None) =>
            /\ searches[id].status = "completed"
            /\ Len(runRows[id]) = Len(build(searches[id].query.sources))
            /\ \A i \in 1..Len(offerRows[id]) :
                  \E j \in 1..Len(runRows[id]) :
                      /\ runRows[id][j].source = offerRows[id][i].source
                      /\ runRows[id][j].status = "success"
            /\ \A j \in 1..Len(runRows[id]) :
                  /\ runRows[id][j].status \in {"success", "timeout", "error"}
                  /\ runRows[id][j].status = "success" <=>
                        runRows[id][j].error_message = None

\* C7's case: a search completed although one connector timed out and the
\* other raised, and one completed with offers of the connector that
\* succeeded next to the failed one's run row.
C7_Witness ==
    /\ \E id \in SearchIds :
          /\ pc[id] = "done" /\ searches[id].status = "completed"
          /\ ~hist[id].cache_hit
          /\ Len(runRows[id]) = 2
          /\ runRows[id][1].status = "timeout"
          /\ runRows[id][2].status = "error"
    /\ \E id \in SearchIds :
          /\ pc[id] = "done" /\ searches[id].status = "completed"
          /\ ~hist[id].cache_hit
          /\ offerRows[id] # <<>>
          /\ \E j \in 1..Len(runRows[id]) : runRows[id][j].status # "success"

\* ------------------------------------------- properties of execute_connectors

\* The connectors that hold a semaphore slot: an attempt is in flight.
ActiveSet == {i \in 1..Len(oTask) : oTask[i].pc = "attempt"}

\* The result _run_single returns for connector i, from its locals and the
\* outcome of its last attempt.
ExpectedResult(i) ==
    IF AttemptStatus(oTask[i].last[1]) = "success"
    THEN SuccessResult(oCall.connectors[i], oTask[i].last[1].offers, oTask[i].elapsed)
    ELSE FailureResult(oCall.connectors[i], AttemptStatus(oTask[i].last[1]),
                       Some(AttemptError(oTask[i].last[1], oCall.timeout_seconds)),
                       oTask[i].elapsed)

C8_Results ==
    /\ oResults # None =>
          /\ Len(oResults[1]) = Len(oCall.connectors)
          /\ \A i \in 1..Len(oCall.connectors) :
                /\ oResults[1][i].source = oCall.connectors[i]
                /\ oResults[1][i] = ExpectedResult(i)
    /\ \A i \in 1..Len(oTask) :
          oTask[i].result # None =>
              /\ oTask[i].result[1] = ExpectedResult(i)
              /\ oTask[i].result[1].status \in {"success", "timeout", "error"}
    /\ oResults = None => ENABLED NextOrch

C8_Step ==
    \A i \in 1..Len(oTask) :
        /\ oTask'[i] # oTask[i] =>
              \A j \in 1..Len(oTask) \ {i} : oTask'[j] = oTask[j]
        /\ oTask[i].result # None => oTask'[i] = oTask[i]

\* C8: execute_connectors returns exactly one result per connector, result i
\* carrying the source name of connector i and being what connector i's own
\* attempts produced, whether it succeeded, timed out or raised; a step of one
\* connector changes no other connector's state, a produced result never
\* changes, and until gather returns some connector can always proceed.
C8_OneResultPerConnector == []C8_Results /\ [][C8_Step]_vars

\* C8's case: gather returned two results in connector order, the first of a
\* connector that timed out and the second of one that returned offers.
C8_Witness ==
    /\ oResults # None
    /\ Len(oResults[1]) = 2
    /\ oResults[1][1].source = "trip_com"
    /\ oResults[1][1].status = "timeout"
    /\ oResults[1][2].source = "airasia"
    /\ oResults[1][2].status = "success"
    /\ oResults[1][2].offers # <<>>

\* C9: at most max_parallel connectors are active at once; the semaphore
\* counts exactly the connectors with an attempt in flight, so a connector
\* keeps its slot from its first attempt through every retry and gives it
\* back when its result is produced.
C9_AtMostMaxParallelActive ==
    /\ Cardinality(ActiveSet) <= oCall.max_parallel
    /\ oSem = oCall.max_parallel - Cardinality(ActiveSet)
    /\ \A i \in 1..Len(oTask) :
          /\ oTask[i].pc = "done" <=> oTask[i].result # None
          /\ i \in ActiveSet => oTask[i].attempt >= 1 /\ oTask[i].result = None

\* C9's case: with one slot and two connectors, one connector is in its
\* second attempt, still holding the slot, while the other waits.
C9_Witness ==
    /\ oCall.max_parallel = 1
    /\ Len(oTask) = 2
    /\ oSem = 0
    /\ \E i, j \in 1..2 :
          /\ oTask[i].pc = "attempt" /\ oTask[i].attempt = 2
          /\ oTask[j].pc = "acquire"

\* C10: a connector is attempted at most retries + 1 times; a new attempt
\* starts only after the previous one failed, so a success is the last
\* attempt and is returned at once with that attempt's offers and no error;
\* a failure is returned only after retries + 1 attempts.
C10_AttemptsBounded ==
    \A i \in 1..Len(oTask) :
        /\ oTask[i].attempt <= oCall.retries + 1
        /\ oTask[i].pc = "attempt" /\ oTask[i].attempt > 1 =>
              /\ oTask[i].last # None
              /\ AttemptStatus(oTask[i].last[1]) # "success"
        /\ oTask[i].last # None /\ AttemptStatus(oTask[i].last[1]) = "success" =>
              /\ oTask[i].pc = "done"
              /\ oTask[i].result[1].status = "success"
              /\ oTask[i].result[1].offers = oTask[i].last[1].offers
              /\ oTask[i].result[1].error_message = None
        /\ oTask[i].pc = "done" /\ AttemptStatus(oTask[i].last[1]) # "success" =>
              /\ oTask[i].attempt = oCall.retries + 1
              /\ oTask[i].result[1].status # "success"

\* C10's case: with one retry, a connector failed its first attempt and
\* returned the offers of its second.
C10_Witness ==
    /\ oCall.retries = 1
    /\ \E i \in 1..Len(oTask) :
          /\ oTask[i].pc = "done"
          /\ oTask[i].attempt = 2
          /\ oTask[i].status # "error" \/ oTask[i].last_error # None
          /\ oTask[i].result[1].status = "success"
          /\ oTask[i].result[1].offers # <<>>

\* The results execute_connectors has produced so far: those of the
\* coroutines that returned and those gather handed back.
ProducedResults ==
    {oTask[i].result[1] : i \in {j \in 1..Len(oTask) : oTask[j].result # None}}
    \cup (IF oResults = None THEN {}
          ELSE {oResults[1][i] : i \in 1..Len(oResults[1])})

\* C11: when all retries + 1 attempts of a connector failed, its result
\* carries the status and the error description of the last attempt and no
\* offers (a deadline gives "timeout" and the timed-out text, a raised
\* exception its formatted text); every result with offers has status
\* success, and every result that is not a success has an error description.
C11_FailureCarriesLastAttempt ==
    /\ \A i \in 1..Len(oTask) :
          oTask[i].result # None /\ oTask[i].result[1].status # "success" =>
              LET last == oTask[i].last[1]
                  result == oTask[i].result[1]
              IN  /\ oTask[i].attempt = oCall.retries + 1
                  /\ last.kind # "ok"
                  /\ result.offers = <<>>
                  /\ last.kind = "deadline" =>
                        /\ result.status = "timeout"
                        /\ result.error_message =
                              Some(TimedOutMessage(oCall.timeout_seconds))
                  /\ last.kind = "raise" /\ last.exc_type # "TimeoutError" =>
                        /\ result.status = "error"
                        /\ result.error_message =
                              Some(_format_exception_message(last.exc_type,
                                                             last.exc_msg))
                  /\ result.status = AttemptStatus(last)
                  /\ result.error_message =
                        Some(AttemptError(last, oCall.timeout_seconds))
                  /\ oResults # None => oResults[1][i] = result
    /\ \A result \in ProducedResults :
          /\ result.offers # <<>> => result.status = "success"
          /\ result.status # "success" => result.error_message # None

\* C11's case: with one retry, the first attempt of a connector was still
\* running at the deadline and its second attempt raised after 150 ms; the
\* result is the error of the second attempt, not the timeout of the first.
C11_Witness ==
    /\ oCall.retries = 1
    /\ \E i \in 1..Len(oTask) :
          /\ oTask[i].pc = "done"
          /\ oTask[i].attempt = 2
          /\ oTask[i].last = Some(RaiseOutcome("ConnectorExecutionError",
                                               "upstream failed"))
          /\ oTask[i].elapsed = oCall.timeout_seconds * 1000 + 150
          /\ oTask[i].result[1].status = "error"
          /\ oTask[i].result[1].error_message =
                Some(<<"ConnectorExecutionError", ": ", "upstream failed">>)
          /\ oTask[i].result[1].offers = <<>>

\* C12 (as the specification states it): an attempt is classified timeout
\* exactly when the connector call was still running at the deadline, and a
\* failure the connector raised before the deadline is classified error
\* whatever its exception type; an attempt that hit the deadline yields no
\* offers. The classification fails for a connector that raises TimeoutError
\* itself: "except TimeoutError" catches it like the one wait_for raises.
C12_TimeoutOnlyAtDeadline ==
    \A i \in 1..Len(oTask) :
        oTask[i].last # None /\ oTask[i].last[1].kind # "ok" =>
            /\ oTask[i].status = "timeout" <=> oTask[i].last[1].kind = "deadline"
            /\ oTask[i].last[1].kind = "raise" =>
                  /\ oTask[i].status = "error"
                  /\ oTask[i].last_error =
                        Some(_format_exception_message(oTask[i].last[1].exc_type,
                                                       oTask[i].last[1].exc_msg))
            /\ oTask[i].last[1].kind = "deadline" /\ oTask[i].result # None =>
                  oTask[i].result[1].offers = <<>>

\* C13 (as the specification states it): a search completed by a cache-miss
\* run has exactly one ConnectorRun row per requested source name, in the
\* order requested, unknown names included. ConnectorRegistry.build skips
\* the names it does not know, so such a name gets no row.
C13_OneRunPerRequestedSource ==
    \A id \in SearchIds :
        /\ searches[id].exists
        /\ searches[id].status = "completed"
        /\ ~hist[id].cache_hit
        => /\ Len(runRows[id]) = Len(searches[id].query.sources)
           /\ \A k \in 1..Len(searches[id].query.sources) :
                 Cardinality({j \in 1..Len(runRows[id]) :
                     runRows[id][j].source = Lower(searches[id].query.sources[k])}) = 1

\* The searches whose requested sources resolve to no connector.
ResolvesToNothing(id) ==
    searches[id].exists /\ build(searches[id].query.sources) = <<>>

\* What holds of such a search in every state: no connector was called, no
\* pipeline stage and no persistence of results was reached, no offer or run
\* row exists, nothing is cached under its key, and the only exception a
\* healthy database and cache leave it with is the resolution error.
NothingRanFor(id) ==
    /\ hist[id].connector_calls = 0
    /\ ~hist[id].cache_hit
    /\ pc[id] \in {"start", "cache_get", "orchestrate", "mark_failed", "done", "crashed"}
    /\ offerRows[id] = <<>>
    /\ runRows[id] = <<>>
    /\ redisStore[cache_key_for_query_hash(searches[id].query_hash)] = None
    /\ searches[id].status # "completed"
    /\ exc[id] # None /\ exc[id][1].stage = "resolve" =>
          exc[id][1].msg = "No valid connectors requested"

C15_OneActiveTaskPerRequest ==
    \A h1, h2 \in RunningTasks :
        taskOf[h1].search_id = taskOf[h2].search_id => h1 = h2

\* C16 (as the specification states it): once shutdown has closed a
\* transport, no search task launched before shutdown was called or while
\* it was waiting is still running. gather awaits only the tasks registered
\* when shutdown was called, so a task launched during the wait outlives
\* the transports.
C16_TransportsClosedAfterTasks ==
    closed # {} =>
        \A h \in RunningTasks : taskOf[h].during \notin {"idle", "gather"}

\* C17 (as the specification states it): a launch call made after shutdown
\* has started does not start a task. launch never looks at the shutdown.
C17_NoLaunchAfterShutdown ==
    \A h \in Handles : taskOf[h].during = "idle"

\* ------------------------------------------------ properties of persistence

\* What is stored for each search in every state: a search that was never
\* completed has no rows, and right after the persistence of a cache-miss
\* run the rows are the run's validated ranked offers, at most
\* max_offers_per_search of them, and the run's connector results.
C18_Stored ==
    \A id \in SearchIds :
        /\ searches[id].status \in {"", "queued", "running"} =>
              offerRows[id] = <<>> /\ runRows[id] = <<>>
        /\ searches[id].status = "failed" /\ exc[id][1].stage # "cache_set" =>
              offerRows[id] = <<>> /\ runRows[id] = <<>>
        /\ searches[id].status = "completed" =>
              /\ searches[id].completed_at # None
              /\ searches[id].error_message = None
              /\ Len(offerRows[id]) <= max_offers_per_search
              /\ runRows[id] # <<>>
        /\ pc[id] = "cache_set" =>
              /\ searches[id].status = "completed"
              /\ offerRows[id] = MapSeq(OfferRow, local[id].ranked)
              /\ runRows[id] = MapSeq(RunRow, local[id].runs)

\* Every step that changes the offer rows, the run rows or makes the search
\* completed is one persistence step that does all three: the rows become
\* those of the run being persisted and the search goes from running to
\* completed.
C18_Step ==
    \A id \in SearchIds :
        \/ /\ offerRows'[id] = offerRows[id]
           /\ runRows'[id] = runRows[id]
           /\ searches'[id].status = "completed" => searches[id].status = "completed"
        \/ /\ pc[id] = "persist"
           /\ searches[id].status = "running"
           /\ searches'[id].status = "completed"
           /\ offerRows'[id] = MapSeq(OfferRow, local[id].ranked)
           /\ runRows'[id] = MapSeq(RunRow, local[id].runs)
        \/ /\ pc[id] = "hydrate"
           /\ searches[id].status = "running"
           /\ searches'[id].status = "completed"
           /\ offerRows'[id] =
                 MapSeq(OfferRow, MapSeq(from_jsonable, local[id].cached_payload[1].offers))
           /\ runRows'[id] =
                 MapSeq(RunRow, MapSeq(HydrateRun, local[id].cached_payload[1].connector_runs))

Normalized(id) ==
    normalize_offers(RawOffers(local[id].runs), local[id].query.currency, FxQuote)

Filtered(id) == filter_offers_by_stops(Normalized(id), local[id].query.stop_preference)

Deduped(id) == deduplicate_offers(Filtered(id))

Ranked(id) == Cap(rank_offers(Deduped(id)), max_offers_per_search)

\* The steps a run may take from one statement of _run to the next.
StageOrder ==
    {<<"none", "start">>, <<"start", "cache_get">>, <<"cache_get", "hydrate">>,
     <<"cache_get", "orchestrate">>, <<"orchestrate", "normalize">>,
     <<"normalize", "validate">>, <<"validate", "persist">>,
     <<"persist", "cache_set">>, <<"persist", "done">>, <<"cache_set", "done">>,
     <<"hydrate", "done">>, <<"mark_failed", "done">>, <<"mark_failed", "crashed">>}
    \cup {<<stage, "mark_failed">> :
            stage \in {"start", "cache_get", "hydrate", "orchestrate", "normalize",
                       "persist", "cache_set"}}

\* What each stage of a cache-miss run finds done when it starts.
C19_Stages ==
    \A id \in SearchIds :
        /\ pc[id] \in {"cache_get", "orchestrate", "normalize", "validate", "persist"} =>
              /\ searches[id].status = "running"
              /\ searches[id].started_at # None
              /\ searches[id].completed_at = None
              /\ offerRows[id] = <<>> /\ runRows[id] = <<>>
        /\ pc[id] = "cache_get" => ~hist[id].cache_hit /\ hist[id].connector_calls = 0
        /\ pc[id] = "orchestrate" =>
              /\ ~hist[id].cache_hit
              /\ hist[id].connector_calls = 0
              /\ local[id].runs = <<>> /\ local[id].ranked = <<>>
        /\ pc[id] = "normalize" =>
              /\ hist[id].connector_calls >= Len(local[id].runs)
              /\ Len(local[id].runs) = Len(build(local[id].query.sources))
              /\ local[id].runs # <<>>
              /\ local[id].ranked = <<>>
        /\ pc[id] = "validate" => local[id].ranked = Ranked(id)
        /\ pc[id] = "persist" =>
              \E probes \in ProbeChoices(Ranked(id)) :
                  local[id].ranked = validate_links(Ranked(id), probes)
        /\ pc[id] = "cache_set" =>
              /\ ~hist[id].cache_hit
              /\ searches[id].status = "completed"
              /\ offerRows[id] = MapSeq(OfferRow, local[id].ranked)
              /\ \E probes \in ProbeChoices(Ranked(id)) :
                    local[id].ranked = validate_links(Ranked(id), probes)

\* A run moves only from one statement to the next one of _run (a run that
\* finds no row for its id returns at once); the status
\* becomes running only in the first step; and the cache entry of a query is
\* written only by the step after the persistence of a run of that query.
C19_Step ==
    /\ \A id \in SearchIds :
          /\ pc'[id] # pc[id] =>
                \/ <<pc[id], pc'[id]>> \in StageOrder
                \/ ~searches[id].exists /\ pc[id] = "start" /\ pc'[id] = "done"
          /\ searches'[id].status = "running" /\ searches[id].status # "running" =>
                pc[id] = "start" /\ pc'[id] = "cache_get"
    /\ \A key \in AllCacheKeys :
          redisStore'[key] # redisStore[key] /\ redisStore'[key] # None =>
              \E id \in SearchIds :
                  /\ pc[id] = "cache_set" /\ pc'[id] = "done"
                  /\ searches[id].status = "completed"
                  /\ key = cache_key_for_query_hash(local[id].query_hash)
                  /\ redisStore'[key] =
                        Some(CachePayload(local[id].ranked, local[id].runs))

\* C19: a cache-miss run commits status running with its start time, then
\* reads the cache, then runs the connectors, then normalizes, filters,
\* deduplicates, ranks and caps their offers in this order, then validates
\* the links, then persists with status completed, and only then writes the
\* cache; each stage starts from the output of the previous one, and no
\* stage is skipped or taken out of order.
C19_StagesInOrder == []C19_Stages /\ [][C19_Step]_vars

\* C19's case: a run is about to validate links after three raw offers were
\* deduplicated to two and ranking changed their order.
C19_Witness ==
    \E id \in SearchIds :
        /\ pc[id] = "validate"
        /\ Len(RawOffers(local[id].runs)) = 3
        /\ Len(local[id].ranked) = 2
        /\ local[id].ranked # Deduped(id)
        /\ searches[id].status = "running"

\* ------------------------------------------------ properties of the query hash

\* How often a source name occurs in a source list, letter case ignored.
Occurrences(sources, name) ==
    Cardinality({i \in 1..Len(sources) : Lower(sources[i]) = Lower(name)})

\* Two source lists are the same up to letter case and order.
SameSources(a, b) ==
    /\ Len(a) = Len(b)
    /\ \A i \in 1..Len(a) : Occurrences(a, a[i]) = Occurrences(b, a[i])

\* Two queries agree on every field, where only the letter case of origin,
\* destination, currency and source names and the order of the sources are
\* ignored.
Agree(a, b) ==
    /\ Upper(a.origin) = Upper(b.origin)
    /\ Upper(a.destination) = Upper(b.destination)
    /\ Upper(a.currency) = Upper(b.currency)
    /\ a.departure_date = b.departure_date
    /\ a.return_date = b.return_date
    /\ a.trip_type = b.trip_type
    /\ a.adults = b.adults
    /\ a.children = b.children
    /\ a.infants = b.infants
    /\ a.cabin = b.cabin
    /\ a.stop_preference = b.stop_preference
    /\ SameSources(a.sources, b.sources)

\* C20: the hashes of two queries (the SearchCreateRequest objects the
\* validators built from two request bodies) are equal if and only if the
\* queries agree on every field up to the letter case of origin,
\* destination, currency and source names and the order of the source list;
\* a difference in any other field, in the currency or in the sources
\* requested gives another hash. (An absent and an empty source list are one
\* value here, as they are to build_query_hash.)
C20_HashEqualIffQueriesAgree ==
    hashOut # None /\ hashOut[1].hashes # <<>> =>
        /\ hashOut[1].hashes[1] = hashOut[1].hashes[2]
              <=> Agree(hashOut[1].queries[1], hashOut[1].queries[2])
        /\ \A i \in 1..2 :
              /\ hashIn[i].origin \in {"kul", "KUL"}
              /\ hashIn[i].destination \in {"bkk", "BKK"}
              /\ hashIn[i].currency \in {"myr", "MYR"}
              /\ SameSources(MapSeq(Strip, FilterSeq(NotBlank, hashIn[i].sources)),
                             HashBase.sources)
              /\ \A field \in {"departure_date", "return_date", "trip_type", "adults",
                               "children", "infants", "cabin", "stop_preference"} :
                    hashIn[i][field] = HashBase[field]
              => hashOut[1].hashes[i] = build_query_hash(HashBase)

\* C20's case: two bodies that differ in the letter case of origin and
\* currency and in the case and order of the sources got one hash.
C20_Witness ==
    /\ hashOut # None
    /\ hashIn[1] = HashBase
    /\ hashIn[2].origin = "kul"
    /\ hashIn[2].currency = "myr"
    /\ hashIn[2].sources = <<" AirAsia", "trip_com">>
    /\ hashOut[1].hashes[1] = hashOut[1].hashes[2]

\* ------------------------------------------------------ the stops filter

\* The call made, by function name.
Called(fn) == pipeIn.fn = fn /\ pipeOut # None

\* result is input restricted to the positions in Kept, in input order, each
\* offer as it was in the input.
SelectsInOrder(result, input, Kept) ==
    /\ Len(result) = Cardinality(Kept)
    /\ \A i \in Kept : result[Cardinality({j \in Kept : j <= i})] = input[i]

\* The positions of the input a stop preference asks for.
PositionsWanted(offers, stop_preference) ==
    CASE stop_preference = "non_stop" ->
            {i \in 1..Len(offers) : offers[i].stops = 0}
      [] stop_preference = "multiple_stops" ->
            {i \in 1..Len(offers) : offers[i].stops >= 1}
      [] stop_preference = "any" -> 1..Len(offers)

\* C21: filter_offers_by_stops returns, for non_stop, exactly the input offers
\* with stops = 0, for multiple_stops exactly those with stops >= 1, and for
\* any all of them: in input order and each offer unmodified.
C21_FilterKeepsWantedInOrder ==
    (Called("filter_offers_by_stops")
        /\ pipeIn.stop_preference \in {"non_stop", "multiple_stops", "any"})
    => SelectsInOrder(pipeOut[1], pipeIn.offers,
                      PositionsWanted(pipeIn.offers, pipeIn.stop_preference))

\* A multiple_stops call whose input has a non-stop offer between two offers
\* with stops, one of them with exactly one stop.
C21_Witness ==
    /\ Called("filter_offers_by_stops")
    /\ pipeIn.stop_preference = "multiple_stops"
    /\ Len(pipeIn.offers) = 3
    /\ pipeIn.offers[1].stops = 1
    /\ pipeIn.offers[2].stops = 0
    /\ pipeIn.offers[3].stops = 2
    /\ Len(pipeOut[1]) = 2

\* C22: with preference with_stops the filter keeps only offers with
\* stops >= 1, the same result as multiple_stops.
C22_WithStopsDropsNonStop ==
    (Called("filter_offers_by_stops") /\ pipeIn.stop_preference = "with_stops")
    => /\ \A i \in 1..Len(pipeOut[1]) : pipeOut[1][i].stops >= 1
       /\ pipeOut[1] = filter_offers_by_stops(pipeIn.offers, "multiple_stops")

\* ------------------------------------------------- deduplication, ranking

\* The positions of the input whose offer has the identity key of `offer`.
SameKey(offers, offer) ==
    {i \in 1..Len(offers) : build_dedup_key(offers[i]) = build_dedup_key(offer)}

FirstSeen(offers, offer) ==
    CHOOSE i \in SameKey(offers, offer) : \A j \in SameKey(offers, offer) : i <= j

\* a is preferred to b: cheaper, or as cheap and shorter, or tied and earlier.
Preferred(offers, a, b) ==
    \/ offers[a].total_price < offers[b].total_price
    \/ /\ offers[a].total_price = offers[b].total_price
       /\ offers[a].duration_minutes < offers[b].duration_minutes
    \/ /\ offers[a].total_price = offers[b].total_price
       /\ offers[a].duration_minutes = offers[b].duration_minutes
       /\ a <= b

Survivor(offers, offer) ==
    CHOOSE i \in SameKey(offers, offer) :
        \A j \in SameKey(offers, offer) : Preferred(offers, i, j)

\* C23: deduplicate_offers returns one offer per identity key of the input,
\* the cheapest of the key, then the shortest, then the first seen; survivors
\* are in the order their keys first occur; deduplicating the output again
\* changes nothing.
C23_DedupKeepsBestPerKey ==
    Called("deduplicate_offers") =>
        LET offers == pipeIn.offers
            result == pipeOut[1]
        IN  /\ Len(result) =
                   Cardinality({build_dedup_key(offers[i]) : i \in 1..Len(offers)})
            /\ \A i \in 1..Len(offers) :
                   \E r \in 1..Len(result) :
                       build_dedup_key(result[r]) = build_dedup_key(offers[i])
            /\ \A r \in 1..Len(result) :
                   /\ SameKey(offers, result[r]) # {}
                   /\ result[r] = offers[Survivor(offers, result[r])]
            /\ \A a, b \in 1..Len(result) :
                   a < b => FirstSeen(offers, result[a]) < FirstSeen(offers, result[b])
            /\ deduplicate_offers(result) = result

\* An input of three offers of one flight: the survivor is the last, as cheap
\* as the second and shorter, and the first was the dearest.
C23_Witness ==
    /\ Called("deduplicate_offers")
    /\ pipeIn.offers = <<OfferA, OfferC, OfferE>>
    /\ pipeOut[1] = <<OfferE>>

\* The sort key of rank_offers, and its order written out.
RankKey(offer) == <<offer.total_price, offer.stops, offer.duration_minutes>>

KeyBefore(a, b) ==
    \E k \in 1..3 : a[k] < b[k] /\ \A h \in 1..(k - 1) : a[h] = b[h]

\* The ways to place n offers: one-to-one maps of positions onto positions.
Placements(n) ==
    {p \in [1..n -> 1..n] : \A i, j \in 1..n : p[i] = p[j] => i = j}

\* C24: rank_offers returns its input's offers, each once and unmodified,
\* ascending by (total_price, stops, duration_minutes), offers with equal
\* keys in their input order.
C24_RankIsStableSort ==
    Called("rank_offers") =>
        LET offers == pipeIn.offers
            result == pipeOut[1]
            n == Len(offers)
        IN  /\ Len(result) = n
            /\ \A a, b \in 1..n :
                   a < b => ~KeyBefore(RankKey(result[b]), RankKey(result[a]))
            /\ \E p \in Placements(n) :
                   /\ \A i \in 1..n : result[p[i]] = offers[i]
                   /\ \A i, j \in 1..n :
                          (i < j /\ RankKey(offers[i]) = RankKey(offers[j]))
                          => p[i] < p[j]

\* Two offers with one key, given dearest first with the tied pair behind it:
\* the pair moves to the front in its input order.
C24_Witness ==
    /\ Called("rank_offers")
    /\ pipeIn.offers = <<OfferA, OfferG, OfferC>>
    /\ pipeOut[1] = <<OfferG, OfferC, OfferA>>

\* ------------------------------------------------------------ normalization

\* cents is amount * rate rounded to the cent, halves upwards: the whole
\* number of cents within half a cent of the product, the upper one on a tie.
IsHalfUpOf(cents, amount, rate) ==
    /\ 2 * rate.den * cents - rate.den <= 2 * amount * rate.num
    /\ 2 * amount * rate.num < 2 * rate.den * cents + rate.den

\* An optional monetary field after conversion: absent stays absent.
ConvertedField(after, before, rate) ==
    IF before = None THEN after = None
    ELSE after # None /\ IsHalfUpOf(after[1], before[1], rate)

\* C25: normalize_offers returns one offer per input offer, in input order,
\* in the upper-cased target currency; an offer already in that currency keeps
\* its amounts; otherwise every present monetary field is amount * rate
\* rounded half-up to the cent and every absent one stays absent.
C25_NormalizeConvertsEachOffer ==
    Called("normalize_offers") =>
        LET offers == pipeIn.offers
            result == pipeOut[1]
        IN  /\ Len(result) = Len(offers)
            /\ \A i \in 1..Len(offers) :
                   /\ build_dedup_key(result[i]) = build_dedup_key(offers[i])
                   /\ result[i].booking_url = offers[i].booking_url
                   /\ result[i].currency = Upper(pipeIn.target_currency)
                   /\ IF Upper(offers[i].currency) = Upper(pipeIn.target_currency)
                      THEN /\ result[i].base_price = offers[i].base_price
                           /\ result[i].taxes = offers[i].taxes
                           /\ result[i].fees = offers[i].fees
                           /\ result[i].total_price = offers[i].total_price
                      ELSE /\ ConvertedField(result[i].base_price,
                                             offers[i].base_price, pipeIn.rate)
                           /\ ConvertedField(result[i].taxes, offers[i].taxes,
                                             pipeIn.rate)
                           /\ ConvertedField(result[i].fees, offers[i].fees,
                                             pipeIn.rate)
                           /\ IsHalfUpOf(result[i].total_price,
                                         offers[i].total_price, pipeIn.rate)

\* A USD offer of 1.50 with taxes of 2.50 and no fees, converted at 4.47 next
\* to a MYR offer: 6.705 becomes 6.71, 11.175 becomes 11.18, the MYR amount
\* stays.
C25_Witness ==
    /\ Called("normalize_offers")
    /\ pipeIn.offers = <<OfferF, OfferC>>
    /\ pipeIn.target_currency = "myr"
    /\ pipeIn.rate = FxQuote
    /\ pipeOut[1][1].currency = "MYR"
    /\ pipeOut[1][1].total_price = 671
    /\ pipeOut[1][1].taxes = Some(1118)
    /\ pipeOut[1][1].fees = None
    /\ pipeOut[1][2].currency = "MYR"
    /\ pipeOut[1][2].total_price = 29000

\* ---------------------------------------------------------- link validation

\* The flag the contract gives a URL, from what happened to its own requests.
ExpectedFlag(url, probe) ==
    CASE UrlParseRaises(url) -> FALSE
      [] UrlScheme(url) \notin {"http", "https"} -> FALSE
      [] probe.head.raised -> FALSE
      [] probe.head.status < 400 -> TRUE
      [] probe.get.raised -> FALSE
      [] OTHER -> probe.get.status < 400

\* C26: link validation flags every offer of the batch from its own URL:
\* false without a request for a scheme other than http(s), true when HEAD
\* answers below 400, else what GET answers, false on any exception; whatever
\* the requests of another offer do leaves the flag as it is, and the batch
\* is always returned whole (the worker's ValidateLinks step has no failing
\* outcome).
C26_FlagsFromOwnUrlOnly ==
    Called("_validate_links") =>
        LET offers == pipeIn.offers
            probes == pipeIn.probes
            result == pipeOut[1]
        IN  /\ Len(result) = Len(offers)
            /\ \A i \in 1..Len(offers) :
                   /\ result[i] = [offers[i] EXCEPT !.deep_link_valid =
                                      ExpectedFlag(offers[i].booking_url, probes[i])]
                   /\ UrlScheme(offers[i].booking_url) \notin {"http", "https"}
                          => probes[i] = [head |-> NotSent, get |-> NotSent]
                   /\ \A j \in 1..Len(offers) \ {i} :
                      \A other \in ProbesFor(offers[j].booking_url) :
                          validate_links(offers, [probes EXCEPT ![j] = other])[i]
                              = result[i]

\* A batch of a URL that does not parse, a URL whose HEAD raises and a URL
\* whose HEAD answers 404 and whose GET answers 200: only the last is valid.
C26_Witness ==
    /\ Called("_validate_links")
    /\ pipeIn.offers = <<OfferD, OfferA, OfferC>>
    /\ pipeIn.probes[2].head.raised
    /\ pipeIn.probes[3].head.status = 404
    /\ pipeIn.probes[3].get.status = 200
    /\ ~pipeOut[1][1].deep_link_valid
    /\ ~pipeOut[1][2].deep_link_valid
    /\ pipeOut[1][3].deep_link_valid

\* ------------------------------------------------------- error descriptions

\* The description the contract gives a raised failure: its kind and its
\* message text, or "no details provided" for a blank message.
DescriptionOf(exc_type, exc_msg) ==
    IF Strip(exc_msg) = "" THEN <<exc_type, ": no details provided">>
    ELSE <<exc_type, ": ", Strip(exc_msg)>>

\* C27 (as the specification states it): the error description of an attempt
\* in which the connector raised is "<failure kind>: <message text>", or
\* "<failure kind>: no details provided" for a failure without message; with
\* retries = 0 a connector raising a message-less failure ends with status
\* error and exactly that description. It fails for a connector that raises
\* TimeoutError: the description is the timed-out text of the deadline.
C27_DescriptionHasKindAndMessage ==
    \A i \in 1..Len(oTask) :
        oTask[i].last # None /\ oTask[i].last[1].kind = "raise" =>
            LET last == oTask[i].last[1]
            IN  /\ oTask[i].last_error =
                       Some(DescriptionOf(last.exc_type, last.exc_msg))
                /\ (oCall.retries = 0 /\ Strip(last.exc_msg) = ""
                        /\ oTask[i].result # None)
                   => /\ oTask[i].result[1].status = "error"
                      /\ oTask[i].result[1].error_message =
                             Some(<<last.exc_type, ": no details provided">>)

\* ------------------------------------------------- a run without a request

\* The run of id was launched and there is no SearchRequest row for id.
RunsWithoutRow(id) == ~searches[id].exists /\ pc[id] # "none"

\* What a run without a row has done: it is at its first statement, has
\* returned, or is in the except clause after session.get raised; it has not
\* read the cache nor called a connector, and there is no row of any kind for
\* its id, failed or otherwise.
C28_Untouched ==
    \A id \in SearchIds :
        RunsWithoutRow(id) =>
            /\ pc[id] \in {"start", "done", "mark_failed", "crashed"}
            /\ searches[id] = NoRow
            /\ offerRows[id] = <<>> /\ runRows[id] = <<>>
            /\ hist[id] = NoHist
            /\ local[id] = NoLocal

\* A step of a run without a row changes no row of any search, no cache
\* entry and no connector history.
C28_Step ==
    \A id \in SearchIds :
        RunsWithoutRow(id) /\ pc'[id] # pc[id] =>
            UNCHANGED <<searches, offerRows, runRows, redisStore, fxCache, hist>>

\* C28: a run launched for an id without SearchRequest exits without effect:
\* no request, offer or connector-run row is created or changed, the cache is
\* neither read nor written, no connector is invoked, no failed state is
\* recorded.
C28_AbsentRequestRunHasNoEffect == []C28_Untouched /\ [][C28_Step]_vars

\* A run without a row has returned, without an exception, while the run of
\* an existing search is under way.
C28_Witness ==
    \E id \in SearchIds :
        /\ ~searches[id].exists
        /\ pc[id] = "done"
        /\ exc[id] = None
        /\ \E other \in SearchIds : searches[other].status = "running"

\* ------------------------------------------ status and its companion fields

\* What every status says about the timestamps and the error message, apart
\* from the start time of a failed request.
CompanionsAgree(row) ==
    /\ row.status \in {"queued", "running", "completed", "failed"}
    /\ row.status = "queued" => row.started_at = None /\ row.completed_at = None
    /\ row.status \in {"running", "completed"} => row.started_at # None
    /\ row.status = "completed" =>
          row.error_message = None /\ row.completed_at # None
    /\ row.status = "failed" =>
          row.error_message # None /\ row.completed_at # None
    /\ row.completed_at # None => row.status \notin {"queued", "running"}

AtPositions(offers, S) ==
    [k \in 1..Cardinality(S) |->
        offers[CHOOSE i \in S : Cardinality({j \in S : j <= i}) = k]]

\* The positions behind the cheapest offer whose offer is the earliest of its
\* airline there, and the other positions behind the cheapest.
EarliestOfAirline(offers) ==
    {i \in 2..Len(offers) :
        \A j \in 2..(i - 1) : airline_key(offers[j]) # airline_key(offers[i])}

Leftovers(offers) == (2..Len(offers)) \ EarliestOfAirline(offers)

Smaller(a, b) == IF a < b THEN a ELSE b

\* C29: the alternatives of a response never contain the cheapest (first)
\* offer, contain no offer twice, and are at most
\* min(max_offers_per_search - 1, 5); they are the earliest offer of each
\* airline among the non-cheapest offers and then the cheapest leftovers, as
\* many as min(limit, number of non-cheapest offers).
C29_AlternativesVarietyFirst ==
    Called("_select_alternative_offers") =>
        LET offers == pipeIn.offers
            result == pipeOut[1]
            limit == Smaller(pipeIn.max_offers_per_search - 1, 5)
            others == IF offers = <<>> THEN 0 ELSE Len(offers) - 1
        IN  /\ \A r \in 1..Len(result) : result[r].id # offers[1].id
            /\ \A r, q \in 1..Len(result) : result[r].id = result[q].id => r = q
            /\ Len(result) <= limit
            /\ Len(result) = Smaller(limit, others)
            /\ result = SubSeq(AtPositions(offers, EarliestOfAirline(offers))
                                  \o AtPositions(offers, Leftovers(offers)),
                               1, Smaller(limit, others))

\* Four offers and three alternatives asked for: behind the cheapest come two
\* offers of one airline and one of another; the alternatives are the first of
\* each airline and then the leftover.
C29_Witness ==
    /\ Called("_select_alternative_offers")
    /\ pipeIn.max_offers_per_search = 4
    /\ Len(pipeIn.offers) = 4
    /\ pipeIn.offers[1].id = "o6"
    /\ pipeIn.offers[2].id = "o1"
    /\ pipeIn.offers[3].id = "o2"
    /\ pipeIn.offers[4].id = "o3"
    /\ Len(pipeOut[1]) = 3
    /\ pipeOut[1][1].id = "o1"
    /\ pipeOut[1][2].id = "o3"
    /\ pipeOut[1][3].id = "o2"

====
